---- MODULE Spec2Model ----
(***************************************************************************)
(* A model of the tax calculator's core: the bounded TTL+LRU cache         *)
(* (app/core/cache.py), the retry decorator                                *)
(* (app/decorators/retry_on_failure.py) and the bracket fetcher            *)
(* (app/core/tax_calculator.py).                                           *)
(***************************************************************************)
EXTENDS Integers, Sequences, FiniteSets, TLC

VARIABLES
    cache,            \* LRUCache.cache: the OrderedDict, oldest entry first
    capacity,         \* LRUCache.capacity
    ttl_in_seconds,   \* LRUCache.ttl_in_seconds
    now,              \* datetime.now().timestamp(), in whole seconds
    ret,              \* the last cache call: operation, key, value, exception
    storedAt,         \* history: the time of the last put of each key ever put
    useOrder,         \* history: keys by last put or successful get, oldest first
    max_retries,      \* retry_on_failure: the attempt count
    delay_in_seconds, \* retry_on_failure: the base delay
    should_abort_retry, \* retry_on_failure: the abort predicate, or None
    plan,             \* what the wrapped operation does on its 1st, 2nd, ... call
    w,                \* one call of the wrapper: position, loop counter, history
    req,              \* the calls of fetch_tax_brackets in progress, per caller
    fetches,          \* the number of fetch_tax_brackets calls started
    th,               \* the threads that use one cache: position and locals
    ops,              \* the number of cache calls the threads have started
    salary,           \* calculate_taxes: the salary argument
    brackets,         \* calculate_taxes: the brackets argument
    tax_result,       \* calculate_taxes: what the call returned or raised
    calculations,     \* process_tax_calculations: the batch
    results,          \* process_tax_calculations: the results so far
    job,              \* process_tax_calculations: position, delivery, outcome
    engine,           \* history: the calls of the fetcher and the tax engine
    http,             \* the last request a route handled and its response
    admin_api_key,    \* config.get_admin_api_key()
    request_history,  \* rate_limit: the stored timestamps per unique_id
    rate_limit_requests,           \* rate_limit: R
    rate_limit_window_in_seconds,  \* rate_limit: W
    testing,          \* current_app.config.get('TESTING')
    admitted,         \* history: the times of all admitted calls per unique_id
    call              \* rate_limit: the last call of the wrapper and its outcome

cacheVars == <<cache, capacity, ttl_in_seconds, now, ret, storedAt, useOrder>>
retryVars == <<max_retries, delay_in_seconds, should_abort_retry, plan, w>>
fetchVars == <<req, fetches>>
threadVars == <<th, ops>>
taxVars == <<salary, brackets, tax_result>>
callerVars == <<calculations, results, job, engine>>
routeVars == <<http, admin_api_key>>
limitVars == <<request_history, rate_limit_requests,
               rate_limit_window_in_seconds, testing, admitted, call>>
restVars == <<callerVars, routeVars, limitVars>>
vars == <<cache, capacity, ttl_in_seconds, now, ret, storedAt, useOrder,
          max_retries, delay_in_seconds, should_abort_retry, plan, w,
          req, fetches, th, ops, salary, brackets, tax_result,
          calculations, results, job, engine, http, admin_api_key,
          request_history, rate_limit_requests, rate_limit_window_in_seconds,
          testing, admitted, call>>

\* The parts of the state a specification does not use.
NoCallers ==
    /\ calculations = << >>
    /\ results = << >>
    /\ job = "None"
    /\ engine = {}

NoRoutes ==
    /\ http = "None"
    /\ admin_api_key = "None"

NoLimiter ==
    /\ request_history = << >>
    /\ rate_limit_requests = 0
    /\ rate_limit_window_in_seconds = 0
    /\ testing = FALSE
    /\ admitted = << >>
    /\ call = "None"

----------------------------------------------------------------------------
(* Bounds of the model *)

MaxCapacity == 2
MaxTtl == 1
MaxNow == 2
MaxRetries == 3
MaxDelay == 2
MaxFetches == 2
MaxMonths == 1
MaxOps == 3

Keys == {"k1", "k2", "k3"}
Values == {"v1", "v2"}
None == "None"

----------------------------------------------------------------------------
(* app/core/cache.py: the OrderedDict as a sequence of entries *)

Entry(k, v, t) == [key |-> k, value |-> v, timestamp |-> t]

\* key in self.cache
Has(c, k) == \E i \in 1..Len(c) : c[i].key = k

\* self.cache[key]
Lookup(c, k) == c[CHOOSE i \in 1..Len(c) : c[i].key = k]

\* del self.cache[key]
DelKey(c, k) == SelectSeq(c, LAMBDA e : e.key # k)

\* self.cache.move_to_end(key)
MoveToEnd(c, k) == Append(DelKey(c, k), Lookup(c, k))

KeysOf(c) == {c[i].key : i \in 1..Len(c)}

\* LRUCache.__contains__
contains(c, k) == Has(c, k)

\* A delete that removes the least recently used entry in place of the
\* entry of the key.
delitem_oldest(c, k) == IF Has(c, k) THEN Tail(c) ELSE c

\* LRUCache.__delitem__
delitem(c, k) == IF Has(c, k) THEN DelKey(c, k) ELSE c

\* LRUCache.clear
clear(c) == << >>

\* A get that compares the age with >= instead of >.
get_expire_at_ttl(c, k, t, ttl) ==
    IF ~Has(c, k) THEN [cache |-> c, value |-> None]
    ELSE IF t - Lookup(c, k).timestamp >= ttl
         THEN [cache |-> DelKey(c, k), value |-> None]
         ELSE [cache |-> MoveToEnd(c, k), value |-> Lookup(c, k).value]

\* LRUCache.get
get(c, k, t, ttl) ==
    IF ~Has(c, k) THEN [cache |-> c, value |-> None]
    ELSE IF t - Lookup(c, k).timestamp > ttl
         THEN [cache |-> DelKey(c, k), value |-> None]
         ELSE [cache |-> MoveToEnd(c, k), value |-> Lookup(c, k).value]

\* A put that evicts only when the size exceeds the capacity.
put_evict_late(c, k, v, t, cap) ==
    IF Has(c, k)
    THEN [cache |-> Append(DelKey(c, k), Entry(k, v, t)),
          raised |-> None, evicted |-> None]
    ELSE IF Len(c) > cap
    THEN IF Len(c) = 0
         THEN [cache |-> c, raised |-> "KeyError", evicted |-> None]
         ELSE [cache |-> Append(Tail(c), Entry(k, v, t)),
               raised |-> None, evicted |-> Head(c).key]
    ELSE [cache |-> Append(c, Entry(k, v, t)), raised |-> None, evicted |-> None]

\* A put that checks the size before it checks whether the key is present.
put_evict_first(c, k, v, t, cap) ==
    IF Len(c) >= cap
    THEN IF Len(c) = 0
         THEN [cache |-> c, raised |-> "KeyError", evicted |-> None]
         ELSE [cache |-> Append(DelKey(Tail(c), k), Entry(k, v, t)),
               raised |-> None, evicted |-> Head(c).key]
    ELSE [cache |-> Append(DelKey(c, k), Entry(k, v, t)),
          raised |-> None, evicted |-> None]

\* A put that evicts the newest entry instead of the oldest.
put_evict_newest(c, k, v, t, cap) ==
    IF Has(c, k)
    THEN [cache |-> Append(DelKey(c, k), Entry(k, v, t)),
          raised |-> None, evicted |-> None]
    ELSE IF Len(c) >= cap
    THEN IF Len(c) = 0
         THEN [cache |-> c, raised |-> "KeyError", evicted |-> None]
         ELSE [cache |-> Append(SubSeq(c, 1, Len(c) - 1), Entry(k, v, t)),
               raised |-> None, evicted |-> c[Len(c)].key]
    ELSE [cache |-> Append(c, Entry(k, v, t)), raised |-> None, evicted |-> None]

\* A put that leaves the entry of a key that is present as it is.
put_keep_existing(c, k, v, t, cap) ==
    IF Has(c, k)
    THEN [cache |-> c, raised |-> None, evicted |-> None]
    ELSE IF Len(c) >= cap
    THEN IF Len(c) = 0
         THEN [cache |-> c, raised |-> "KeyError", evicted |-> None]
         ELSE [cache |-> Append(Tail(c), Entry(k, v, t)),
               raised |-> None, evicted |-> Head(c).key]
    ELSE [cache |-> Append(c, Entry(k, v, t)), raised |-> None, evicted |-> None]

\* LRUCache.put. popitem(last=False) of an empty OrderedDict raises KeyError,
\* before anything is stored.
put(c, k, v, t, cap) ==
    IF Has(c, k)
    THEN [cache |-> Append(DelKey(c, k), Entry(k, v, t)),
          raised |-> None, evicted |-> None]
    ELSE IF Len(c) >= cap
    THEN IF Len(c) = 0
         THEN [cache |-> c, raised |-> "KeyError", evicted |-> None]
         ELSE [cache |-> Append(Tail(c), Entry(k, v, t)),
               raised |-> None, evicted |-> Head(c).key]
    ELSE [cache |-> Append(c, Entry(k, v, t)), raised |-> None, evicted |-> None]

----------------------------------------------------------------------------
(* app/exceptions/api_errors.py and app/decorators/retry_on_failure.py *)

\* The subclasses of APIError, and APIError itself.
APIErrors ==
    {"APIError", "ResourceNotFoundError", "ValidationError",
     "UnauthorizedError", "RateLimitError"}

\* Every exception of the model: the API errors, requests.RequestException
\* and the exceptions that are neither (KeyError, TypeError,
\* AttributeError).
Exceptions ==
    APIErrors \cup {"RequestException", "KeyError", "TypeError", "AttributeError"}

\* isinstance(e, APIError)
IsAPIError(e) == e \in APIErrors

\* An except clause that catches every exception.
IsRetryable_all(e) == TRUE

\* except (requests.RequestException, APIError)
IsRetryable(e) == e = "RequestException" \/ IsAPIError(e)

\* should_abort_retry and should_abort_retry(e); the predicate in use is
\* lambda exception: isinstance(exception, RateLimitError)
Aborts(pred, e) == pred # None /\ (pred = "is_rate_limit" /\ e = "RateLimitError")

\* The state of one call of wrapper(*args, **kwargs) before its first attempt.
WrapperStart ==
    [pc |-> "call", attempt |-> 0, last_exception |-> None,
     calls |-> << >>, sleeps |-> << >>, preds |-> 0, result |-> None]

\* A wrapper that sleeps the base delay before every retry.
after_call_constant_delay(ws, r, N, D, pred) ==
    LET c == [ws EXCEPT !.calls = Append(@, r)] IN
    IF r \notin Exceptions
    THEN [c EXCEPT !.pc = "returned", !.result = r]
    ELSE IF ~IsRetryable(r)
    THEN [c EXCEPT !.pc = "raised", !.result = r]
    ELSE LET h == [c EXCEPT !.last_exception = r,
                            !.preds = IF pred # None THEN @ + 1 ELSE @] IN
         IF Aborts(pred, r)
         THEN [h EXCEPT !.pc = "raised", !.result = r]
         ELSE IF ws.attempt < N - 1
         THEN [h EXCEPT !.pc = "sleep",
                        !.sleeps = Append(@, [after |-> Len(c.calls),
                                              delay |-> D])]
         ELSE [h EXCEPT !.pc = "raised", !.result = r]

\* A wrapper that never asks the abort predicate.
after_call_no_abort(ws, r, N, D, pred) ==
    LET c == [ws EXCEPT !.calls = Append(@, r)] IN
    IF r \notin Exceptions
    THEN [c EXCEPT !.pc = "returned", !.result = r]
    ELSE IF ~IsRetryable(r)
    THEN [c EXCEPT !.pc = "raised", !.result = r]
    ELSE LET h == [c EXCEPT !.last_exception = r] IN
         IF ws.attempt < N - 1
         THEN [h EXCEPT !.pc = "sleep",
                        !.sleeps = Append(@, [after |-> Len(c.calls),
                                              delay |-> D * (ws.attempt + 1)])]
         ELSE [h EXCEPT !.pc = "raised", !.result = r]

\* A wrapper whose budget is one attempt short.
after_call_one_less(ws, r, N, D, pred) ==
    LET c == [ws EXCEPT !.calls = Append(@, r)] IN
    IF r \notin Exceptions
    THEN [c EXCEPT !.pc = "returned", !.result = r]
    ELSE IF ~IsRetryable(r)
    THEN [c EXCEPT !.pc = "raised", !.result = r]
    ELSE LET h == [c EXCEPT !.last_exception = r,
                            !.preds = IF pred # None THEN @ + 1 ELSE @] IN
         IF Aborts(pred, r)
         THEN [h EXCEPT !.pc = "raised", !.result = r]
         ELSE IF ws.attempt < N - 2
         THEN [h EXCEPT !.pc = "sleep",
                        !.sleeps = Append(@, [after |-> Len(c.calls),
                                              delay |-> D * (ws.attempt + 1)])]
         ELSE [h EXCEPT !.pc = "raised", !.result = r]

\* One iteration of the loop of wrapper, given what func did (r: the value
\* it returned or the exception it raised): return the value, let an
\* exception that is not caught propagate, break on the abort predicate,
\* sleep delay_in_seconds * (attempt + 1) and go on, or raise on the last
\* attempt. After a break, last_exception is raised.
after_call(ws, r, N, D, pred) ==
    LET c == [ws EXCEPT !.calls = Append(@, r)] IN
    IF r \notin Exceptions
    THEN [c EXCEPT !.pc = "returned", !.result = r]
    ELSE IF ~IsRetryable(r)
    THEN [c EXCEPT !.pc = "raised", !.result = r]
    ELSE LET h == [c EXCEPT !.last_exception = r,
                            !.preds = IF pred # None THEN @ + 1 ELSE @] IN
         IF Aborts(pred, r)
         THEN [h EXCEPT !.pc = "raised", !.result = r]
         ELSE IF ws.attempt < N - 1
         THEN [h EXCEPT !.pc = "sleep",
                        !.sleeps = Append(@, [after |-> Len(c.calls),
                                              delay |-> D * (ws.attempt + 1)])]
         ELSE [h EXCEPT !.pc = "raised", !.result = r]

\* The wrapper's loop after time.sleep returned: the next attempt.
after_sleep(ws) == [ws EXCEPT !.pc = "call", !.attempt = @ + 1]

----------------------------------------------------------------------------
(* The cache used by one caller at a time *)

Ret(op, k, v, e, ev) ==
    [op |-> op, key |-> k, value |-> v, raised |-> e, evicted |-> ev]

StoreTime(f, k, t) ==
    [x \in DOMAIN f \cup {k} |-> IF x = k THEN t ELSE f[x]]

Touch(order, k) == Append(SelectSeq(order, LAMBDA x : x # k), k)

\* LRUCache.__init__: capacity and ttl are whatever the caller passes.
InitCache ==
    /\ cache = << >>
    /\ capacity \in 0..MaxCapacity
    /\ ttl_in_seconds \in 0..MaxTtl
    /\ now = 0
    /\ ret = Ret("init", None, None, None, None)
    /\ storedAt = << >>
    /\ useOrder = << >>
    /\ max_retries = 0
    /\ delay_in_seconds = 0
    /\ should_abort_retry = None
    /\ plan = << >>
    /\ w = None
    /\ req = << >>
    /\ fetches = 0
    /\ th = << >>
    /\ ops = 0
    /\ salary = None
    /\ brackets = None
    /\ tax_result = None
    /\ NoCallers /\ NoRoutes /\ NoLimiter

Get(k) ==
    LET r == get(cache, k, now, ttl_in_seconds) IN
    /\ cache' = r.cache
    /\ ret' = Ret("get", k, r.value, None,
                  IF Has(cache, k) /\ ~Has(r.cache, k) THEN k ELSE None)
    /\ useOrder' = IF r.value # None THEN Touch(useOrder, k) ELSE useOrder
    /\ UNCHANGED <<capacity, ttl_in_seconds, now, storedAt>>
    /\ UNCHANGED <<retryVars, fetchVars, threadVars, taxVars, restVars>>

\* A put that first drops every entry that is older than ttl.
Put_purging(k, v) ==
    LET live == SelectSeq(cache, LAMBDA e : ~(now - e.timestamp > ttl_in_seconds))
        r == put(live, k, v, now, capacity) IN
    /\ cache' = r.cache
    /\ ret' = Ret("put", k, v, r.raised, r.evicted)
    /\ storedAt' = IF r.raised = None THEN StoreTime(storedAt, k, now) ELSE storedAt
    /\ useOrder' = IF r.raised = None THEN Touch(useOrder, k) ELSE useOrder
    /\ UNCHANGED <<capacity, ttl_in_seconds, now>>
    /\ UNCHANGED <<retryVars, fetchVars, threadVars, taxVars, restVars>>

Put(k, v) ==
    LET r == put(cache, k, v, now, capacity) IN
    /\ cache' = r.cache
    /\ ret' = Ret("put", k, v, r.raised, r.evicted)
    /\ storedAt' = IF r.raised = None THEN StoreTime(storedAt, k, now) ELSE storedAt
    /\ useOrder' = IF r.raised = None THEN Touch(useOrder, k) ELSE useOrder
    /\ UNCHANGED <<capacity, ttl_in_seconds, now>>
    /\ UNCHANGED <<retryVars, fetchVars, threadVars, taxVars, restVars>>

Delete(k) ==
    /\ cache' = delitem(cache, k)
    /\ ret' = Ret("delete", k, None, None, None)
    /\ UNCHANGED <<capacity, ttl_in_seconds, now, storedAt, useOrder>>
    /\ UNCHANGED <<retryVars, fetchVars, threadVars, taxVars, restVars>>

Clear ==
    /\ cache' = clear(cache)
    /\ ret' = Ret("clear", None, None, None, None)
    /\ UNCHANGED <<capacity, ttl_in_seconds, now, storedAt, useOrder>>
    /\ UNCHANGED <<retryVars, fetchVars, threadVars, taxVars, restVars>>

\* A contains that looks the key up as get does: it drops an expired entry
\* and makes a live one the most recently used.
Contains_as_get(k) ==
    LET r == get(cache, k, now, ttl_in_seconds) IN
    /\ cache' = r.cache
    /\ ret' = Ret("contains", k, IF r.value # None THEN "True" ELSE "False",
                  None, None)
    /\ useOrder' = IF r.value # None THEN Touch(useOrder, k) ELSE useOrder
    /\ UNCHANGED <<capacity, ttl_in_seconds, now, storedAt>>
    /\ UNCHANGED <<retryVars, fetchVars, threadVars, taxVars, restVars>>

Contains(k) ==
    /\ ret' = Ret("contains", k, IF contains(cache, k) THEN "True" ELSE "False",
                  None, None)
    /\ UNCHANGED <<cache, capacity, ttl_in_seconds, now, storedAt, useOrder>>
    /\ UNCHANGED <<retryVars, fetchVars, threadVars, taxVars, restVars>>

\* The clock moves on between two calls.
Tick ==
    /\ now < MaxNow
    /\ now' = now + 1
    /\ ret' = Ret("tick", None, None, None, None)
    /\ UNCHANGED <<cache, capacity, ttl_in_seconds, storedAt, useOrder>>
    /\ UNCHANGED <<retryVars, fetchVars, threadVars, taxVars, restVars>>

NextCache ==
    \/ \E k \in Keys : Get(k)
    \/ \E k \in Keys, v \in Values : Put(k, v)
    \/ \E k \in Keys : Delete(k)
    \/ Clear
    \/ \E k \in Keys : Contains(k)
    \/ Tick

SpecCache == InitCache /\ [][NextCache]_vars

----------------------------------------------------------------------------
(* Properties of the cache used by one caller at a time *)

\* The least-recently-used stored key: the stored key whose last put or
\* successful get is the oldest.
LRUKey(c, order) ==
    order[CHOOSE i \in 1..Len(order) :
            /\ order[i] \in KeysOf(c)
            /\ \A j \in 1..(i - 1) : order[j] \notin KeysOf(c)]

\* C4: a cache constructed with capacity C >= 1 never stores more than C
\* entries, whatever sequence of put, get, delete, clear and contains ran.
CacheWithinCapacity == capacity >= 1 => Len(cache) <= capacity

\* C4 witness: a put has just evicted an entry of a full cache.
CacheFullAfterEviction ==
    /\ capacity >= 1
    /\ ret.op = "put"
    /\ ret.evicted # None
    /\ Len(cache) = capacity

\* C5: a get of a stored key returns absent and removes the entry when the
\* last put of the key is more than ttl seconds old, and returns the stored
\* value otherwise; the entry's timestamp stays that of the last put.
GetHonoursTtl ==
    [][ret'.op = "get" =>
        LET k == ret'.key IN
        IF ~Has(cache, k) THEN ret'.value = None /\ cache' = cache
        ELSE IF now - storedAt[k] > ttl_in_seconds
             THEN ret'.value = None /\ ~Has(cache', k)
             ELSE /\ ret'.value = Lookup(cache, k).value
                  /\ Has(cache', k)
                  /\ Lookup(cache', k).timestamp = storedAt[k]]_vars

\* C5 witness: a get has just removed an entry that is older than ttl.
GetExpiredEntry ==
    /\ ret.op = "get"
    /\ ret.evicted = ret.key
    /\ ret.value = None
    /\ now - storedAt[ret.key] > ttl_in_seconds

\* C6 as stated: for every capacity, the key of a successful get is not the
\* key the next put evicts.
GetSparesKeyAnyCapacity ==
    [][(/\ ret.op = "get"
        /\ ret.value # None
        /\ ret'.op = "put"
        /\ ret'.evicted # None) => ret'.evicted # ret.key]_vars

\* C6 amended: a put of a new key evicts nothing while the cache is below
\* its capacity C >= 1, and evicts exactly the least-recently-used key when
\* the cache is full; for C >= 2 the evicted key is never the key most
\* recently put or successfully read.
PutEvictsLRU ==
    [][(ret'.op = "put" /\ capacity >= 1 /\ ~Has(cache, ret'.key)) =>
        IF Len(cache) < capacity
        THEN /\ KeysOf(cache') = KeysOf(cache) \cup {ret'.key}
             /\ ret'.evicted = None
        ELSE /\ ret'.evicted = LRUKey(cache, useOrder)
             /\ KeysOf(cache') =
                  (KeysOf(cache) \ {LRUKey(cache, useOrder)}) \cup {ret'.key}
             /\ Len(cache') = capacity
             /\ (capacity >= 2 => ret'.evicted # useOrder[Len(useOrder)])]_vars

\* C6 witness: the cache of capacity 2 is full, the key put first was read
\* after the second put, and the put of a third key evicted the second.
EvictedAfterGet ==
    /\ capacity = 2
    /\ ret.op = "put"
    /\ ret.evicted # None
    /\ Len(useOrder) = 3
    /\ useOrder[1] = ret.evicted
    /\ storedAt[useOrder[2]] < storedAt[useOrder[1]]

PutNeverRaises == ret.op = "put" => ret.raised = None

----------------------------------------------------------------------------
(* The retry wrapper around an operation that fails as the plan says *)

Outcomes == {"v1", "v2", "RequestException", "APIError", "RateLimitError", "KeyError"}

\* All sequences over S of length n.
SeqsOfLen(S, n) == [1..n -> S]

\* retry_on_failure(max_retries, delay_in_seconds, should_abort_retry):
\* max_retries <= 0 raises ValidationError and decorates nothing.
InitRetry ==
    /\ cache = << >>
    /\ capacity = 0
    /\ ttl_in_seconds = 0
    /\ now = 0
    /\ ret = Ret("init", None, None, None, None)
    /\ storedAt = << >>
    /\ useOrder = << >>
    /\ max_retries \in 0..MaxRetries
    /\ delay_in_seconds \in 0..MaxDelay
    /\ should_abort_retry \in {None, "is_rate_limit"}
    /\ plan \in SeqsOfLen(Outcomes, max_retries)
    /\ req = << >>
    /\ fetches = 0
    /\ th = << >>
    /\ ops = 0
    /\ salary = None
    /\ brackets = None
    /\ tax_result = None
    /\ NoCallers /\ NoRoutes /\ NoLimiter
    /\ w = IF max_retries <= 0
           THEN [WrapperStart EXCEPT !.pc = "invalid", !.result = "ValidationError"]
           ELSE WrapperStart

\* One attempt: func is called and the wrapper handles what it did.
Attempt ==
    /\ w.pc = "call"
    /\ w' = after_call(w, plan[Len(w.calls) + 1], max_retries, delay_in_seconds,
                       should_abort_retry)
    /\ UNCHANGED <<max_retries, delay_in_seconds, should_abort_retry, plan>>
    /\ UNCHANGED <<cacheVars, fetchVars, threadVars, taxVars, restVars>>

\* time.sleep returns.
Sleep ==
    /\ w.pc = "sleep"
    /\ w' = after_sleep(w)
    /\ UNCHANGED <<max_retries, delay_in_seconds, should_abort_retry, plan>>
    /\ UNCHANGED <<cacheVars, fetchVars, threadVars, taxVars, restVars>>

NextRetry == Attempt \/ Sleep

SpecRetry == InitRetry /\ [][NextRetry]_vars

\* The first n calls of the plan raise an exception the wrapper retries.
FailsFirst(n) ==
    \A i \in 1..n : IsRetryable(plan[i]) /\ ~Aborts(should_abort_retry, plan[i])

Done(ws) == ws.pc \in {"returned", "raised"}

\* C10: an operation that raises a retry-eligible error on its first N-1
\* calls and then succeeds is called exactly N times, its value is returned,
\* and the wrapper sleeps N-1 times, D*1, D*2, ..., D*(N-1), the i-th sleep
\* after the i-th call and before the next; the wrapper does not stop before.
RetryUntilSuccess ==
    (/\ max_retries >= 1
     /\ FailsFirst(max_retries - 1)
     /\ plan[max_retries] \notin Exceptions) =>
       /\ w.pc # "raised"
       /\ Len(w.calls) <= max_retries
       /\ Len(w.sleeps) <= max_retries - 1
       /\ \A i \in 1..Len(w.sleeps) :
            w.sleeps[i] = [after |-> i, delay |-> delay_in_seconds * i]
       /\ \A i \in 2..Len(w.sleeps) :
            delay_in_seconds > 0 => w.sleeps[i].delay > w.sleeps[i - 1].delay
       /\ w.pc = "sleep" => Len(w.sleeps) = Len(w.calls)
       /\ w.pc = "call" => Len(w.sleeps) = Len(w.calls)
       /\ w.pc = "returned" =>
            /\ Len(w.calls) = max_retries
            /\ Len(w.sleeps) = max_retries - 1
            /\ w.result = plan[max_retries]

\* C10 witness: three attempts, the first two failed, the third returned.
ReturnedOnThirdAttempt ==
    /\ max_retries = 3
    /\ delay_in_seconds = 2
    /\ w.pc = "returned"
    /\ Len(w.calls) = 3
    /\ w.sleeps = <<[after |-> 1, delay |-> 2], [after |-> 2, delay |-> 4]>>

\* C11: when the abort predicate is supplied and true for the error an
\* attempt raised, that attempt is the last: no call and no sleep follows it
\* and the same error is raised; when the first error is one, the operation
\* is called exactly once and the wrapper never sleeps, for every N >= 1.
AbortStopsRetrying ==
    /\ \A i \in 1..Len(w.calls) :
         Aborts(should_abort_retry, w.calls[i]) =>
           /\ i = Len(w.calls)
           /\ w.pc = "raised"
           /\ w.result = w.calls[i]
           /\ w.last_exception = w.calls[i]
           /\ Len(w.sleeps) = i - 1
    /\ (max_retries >= 1 /\ Aborts(should_abort_retry, plan[1])) =>
         /\ Len(w.calls) <= 1
         /\ w.sleeps = << >>
         /\ w.pc \in {"call", "raised"}

\* C11 witness: three attempts allowed, the first raised RateLimitError and
\* the wrapper raised it without a sleep.
AbortedOnFirstError ==
    /\ max_retries = 3
    /\ should_abort_retry = "is_rate_limit"
    /\ w.pc = "raised"
    /\ w.calls = <<"RateLimitError">>
    /\ w.result = "RateLimitError"
    /\ w.sleeps = << >>

\* The wrapper is never stuck before it returned or raised.
RetryFair == InitRetry /\ [][NextRetry]_vars /\ WF_vars(NextRetry)

\* What holds of every state of a wrapper whose operation raises a
\* retry-eligible, non-aborting error on each of its N calls, and of the
\* end of every wrapper.
ExhaustsBudget ==
    /\ (max_retries >= 1 /\ FailsFirst(max_retries)) =>
         /\ w.pc # "returned"
         /\ Len(w.calls) <= max_retries
         /\ \A i \in 1..Len(w.sleeps) :
              w.sleeps[i] = [after |-> i, delay |-> delay_in_seconds * i]
         /\ w.pc \in {"call", "sleep"} => Len(w.calls) < max_retries
         /\ w.pc = "raised" =>
              /\ Len(w.calls) = max_retries
              /\ Len(w.sleeps) = max_retries - 1
              /\ w.result = plan[max_retries]
    /\ w.pc = "returned" =>
         /\ w.result = w.calls[Len(w.calls)]
         /\ w.result \notin Exceptions
         /\ w.result # None
    /\ w.pc = "raised" =>
         /\ w.result = w.calls[Len(w.calls)]
         /\ w.result \in Exceptions

\* C12: an operation that raises a retry-eligible, non-aborting error on
\* every call is called exactly N times with N-1 sleeps and the wrapper
\* raises the error of the last call; every wrapper terminates, returning
\* the value of its last call or raising the error of its last call, and it
\* never returns when its last call failed.
RetryExhausts ==
    /\ [](ExhaustsBudget)
    /\ <>(w.pc \in {"returned", "raised", "invalid"})

\* C12 witness: three failed attempts, two sleeps, the third error raised.
RaisedAfterThreeFailures ==
    /\ max_retries = 3
    /\ FailsFirst(3)
    /\ w.pc = "raised"
    /\ w.calls = <<"APIError", "APIError", "RequestException">>
    /\ w.result = "RequestException"
    /\ Len(w.sleeps) = 2

\* C13: an exception that is neither a RequestException nor an APIError
\* ends the wrapper at the call that raised it: that call is the last, the
\* exception is raised, no sleep follows and the abort predicate is not
\* asked about it; raised by the first call, the operation is called once.
OtherErrorPropagates ==
    /\ \A i \in 1..Len(w.calls) :
         (w.calls[i] \in Exceptions /\ w.calls[i] \notin APIErrors
            /\ w.calls[i] # "RequestException") =>
           /\ i = Len(w.calls)
           /\ w.pc = "raised"
           /\ w.result = w.calls[i]
           /\ Len(w.sleeps) = i - 1
           /\ w.preds = IF should_abort_retry # None THEN i - 1 ELSE 0
    /\ (max_retries >= 1 /\ plan[1] = "KeyError") =>
         /\ Len(w.calls) <= 1
         /\ w.sleeps = << >>
         /\ w.preds = 0
         /\ w.pc \in {"call", "raised"}

\* C13 witness: three attempts allowed and an abort predicate supplied; the
\* first call raised KeyError, which the wrapper let through.
KeyErrorOnFirstCall ==
    /\ max_retries = 3
    /\ should_abort_retry # None
    /\ w.pc = "raised"
    /\ w.calls = <<"KeyError">>
    /\ w.result = "KeyError"
    /\ w.sleeps = << >>
    /\ w.preds = 0

----------------------------------------------------------------------------
(* app/utils/validators.py and app/core/tax_calculator.py: the fetcher *)

ONE_MONTH_IN_SECONDS == 2592000
DefaultCapacity == 100
DefaultMaxRetries == 3
DefaultDelay == 1
MinYear == 2019
MaxYear == 2023

\* The decimal digits and the number a string of digits denotes.
Digits == <<"0", "1", "2", "3", "4", "5", "6", "7", "8", "9">>

IsDigit(c) == \E i \in 1..10 : Digits[i] = c

DigitVal(c) == (CHOOSE i \in 1..10 : Digits[i] = c) - 1

RECURSIVE DigitsToNat(_)
DigitsToNat(ds) ==
    IF ds = << >> THEN 0
    ELSE DigitsToNat(SubSeq(ds, 1, Len(ds) - 1)) * 10 + DigitVal(ds[Len(ds)])

\* The year arguments: None, integers, a string that denotes an integer
\* (int(year.replace(" ", "")) yields n) and a string that denotes none.
YearInputs ==
    {[kind |-> "none", n |-> 0]}
    \cup {[kind |-> "int", n |-> n] : n \in {0, 2018, 2019, 2023, 2024}}
    \cup {[kind |-> "str", n |-> 2023], [kind |-> "badstr", n |-> 0]}

\* The api_url arguments, by what urlparse finds in them.
UrlInputs ==
    {[scheme |-> "http", netloc |-> "api", path |-> ""],
     [scheme |-> "", netloc |-> "", path |-> "api"],
     [scheme |-> "", netloc |-> "", path |-> ""]}

\* What one upstream GET can end in: a 2xx body with a bracket list (B1, B2
\* or the empty list), a 2xx body without tax_brackets that is a JSON object
\* (nofield) or a JSON value that is no container, such as null or a number
\* (nonobject), a status, or a connection failure.
Brackets == {"B1", "B2", "EMPTY"}
Responses ==
    Brackets \cup {"nofield", "nonobject", "400", "404", "429", "500", "neterr"}

\* bool(cached_data): None and the empty list are false.
Truthy(v) == v # None /\ v # "EMPTY"

\* year.replace(" ", "")
year_without_spaces(text) == SelectSeq(text, LAMBDA c : c # " ")

\* Whether int(text) returns: an optional sign and at least one digit.
IsIntLiteral(text) ==
    LET body == IF text # << >> /\ Head(text) \in {"+", "-"}
                THEN Tail(text) ELSE text
    IN body # << >> /\ \A i \in 1..Len(body) : IsDigit(body[i])

\* int(text) for such a text
IntOfLiteral(text) ==
    IF Head(text) = "-" THEN 0 - DigitsToNat(Tail(text))
    ELSE IF Head(text) = "+" THEN DigitsToNat(Tail(text))
    ELSE DigitsToNat(text)

\* A validate_year without the range test on integers.
validate_year_any_int(y) ==
    IF y.kind = "none" \/ (y.kind \in {"int", "float"} /\ y.n = 0)
    THEN [ok |-> FALSE, value |-> 0, error |-> "ValidationError"]
    ELSE IF y.kind = "float"
    THEN [ok |-> FALSE, value |-> 0, error |-> "AttributeError"]
    ELSE IF y.kind = "text"
    THEN IF y.text = << >>
         THEN [ok |-> FALSE, value |-> 0, error |-> "ValidationError"]
         ELSE IF ~IsIntLiteral(year_without_spaces(y.text))
         THEN [ok |-> FALSE, value |-> 0, error |-> "ValidationError"]
         ELSE [ok |-> TRUE, value |-> IntOfLiteral(year_without_spaces(y.text)),
               error |-> None]
    ELSE IF y.kind = "badstr"
    THEN [ok |-> FALSE, value |-> 0, error |-> "ValidationError"]
    ELSE [ok |-> TRUE, value |-> y.n, error |-> None]

\* validate_year. A year of kind "text" is a string given by its characters;
\* a float that is not 0.0 has no replace, so line 35 raises AttributeError,
\* which the except ValueError does not catch.
validate_year(y) ==
    IF y.kind = "none" \/ (y.kind \in {"int", "float"} /\ y.n = 0)
    THEN [ok |-> FALSE, value |-> 0, error |-> "ValidationError"]
    ELSE IF y.kind = "float"
    THEN [ok |-> FALSE, value |-> 0, error |-> "AttributeError"]
    ELSE IF y.kind = "text"
    THEN IF y.text = << >>
         THEN [ok |-> FALSE, value |-> 0, error |-> "ValidationError"]
         ELSE IF ~IsIntLiteral(year_without_spaces(y.text))
         THEN [ok |-> FALSE, value |-> 0, error |-> "ValidationError"]
         ELSE IF IntOfLiteral(year_without_spaces(y.text)) < MinYear
                 \/ IntOfLiteral(year_without_spaces(y.text)) > MaxYear
         THEN [ok |-> FALSE, value |-> 0, error |-> "ValidationError"]
         ELSE [ok |-> TRUE, value |-> IntOfLiteral(year_without_spaces(y.text)),
               error |-> None]
    ELSE IF y.kind = "badstr"
    THEN [ok |-> FALSE, value |-> 0, error |-> "ValidationError"]
    ELSE IF y.n < MinYear \/ y.n > MaxYear
    THEN [ok |-> FALSE, value |-> 0, error |-> "ValidationError"]
    ELSE [ok |-> TRUE, value |-> y.n, error |-> None]

\* validate_api_url
validate_api_url(u) ==
    IF u.scheme = "" /\ u.netloc = "" /\ u.path = ""
    THEN [ok |-> FALSE, error |-> "ValidationError"]
    ELSE IF u.scheme = "" \/ u.netloc = ""
    THEN [ok |-> FALSE, error |-> "ValidationError"]
    ELSE [ok |-> TRUE, error |-> None]

\* TaxCalculator.get_cache_key: f"brackets_{year}"
get_cache_key(year) == <<"brackets_", year>>

\* A classification in which 404 and 429 are plain API errors.
classify_flat(resp) ==
    IF resp = "neterr" THEN "APIError"
    ELSE IF resp \in Brackets THEN "OK"
    ELSE "APIError"

\* A classification that reports 429 as not found.
classify_429_as_404(resp) ==
    IF resp = "neterr" THEN "APIError"
    ELSE IF resp \in {"404", "429"} THEN "ResourceNotFoundError"
    ELSE IF resp = "500" THEN "APIError"
    ELSE IF resp = "400" THEN "APIError"
    ELSE IF resp = "nofield" THEN "APIError"
    ELSE IF resp = "nonobject" THEN "TypeError"
    ELSE "OK"

\* fetch_tax_brackets after requests.get: the exception the response is
\* turned into, or OK. A connection failure and the HTTPError of
\* raise_for_status are RequestExceptions, re-raised as APIError. On a body
\* that is no container, "tax_brackets" not in data raises TypeError, which
\* the except clause of the function does not catch.
classify(resp) ==
    IF resp = "neterr" THEN "APIError"
    ELSE IF resp = "404" THEN "ResourceNotFoundError"
    ELSE IF resp = "429" THEN "RateLimitError"
    ELSE IF resp = "500" THEN "APIError"
    ELSE IF resp = "400" THEN "APIError"
    ELSE IF resp = "nofield" THEN "APIError"
    ELSE IF resp = "nonobject" THEN "TypeError"
    ELSE "OK"

Idle ==
    [at |-> "idle", year |-> [kind |-> "none", n |-> 0],
     api_url |-> [scheme |-> "", netloc |-> "", path |-> ""],
     ws |-> WrapperStart, cached_data |-> None, gets |-> 0, last |-> None,
     puts |-> 0, hit |-> FALSE]

\* tax_brackets_cache = LRUCache(ttl_in_seconds=ONE_MONTH_IN_SECONDS) and the
\* decorator @retry_on_failure(should_abort_retry=lambda ...) with its
\* default max_retries and delay_in_seconds.
InitFetch ==
    /\ cache = << >>
    /\ capacity = DefaultCapacity
    /\ ttl_in_seconds = ONE_MONTH_IN_SECONDS
    /\ now = 0
    /\ ret = Ret("init", None, None, None, None)
    /\ storedAt = << >>
    /\ useOrder = << >>
    /\ max_retries = DefaultMaxRetries
    /\ delay_in_seconds = DefaultDelay
    /\ should_abort_retry = "is_rate_limit"
    /\ plan = << >>
    /\ w = None
    /\ req = [r \in {"r1"} |-> Idle]
    /\ fetches = 0
    /\ th = << >>
    /\ ops = 0
    /\ salary = None
    /\ brackets = None
    /\ tax_result = None
    /\ NoCallers /\ NoRoutes /\ NoLimiter

\* What the wrapper does with the outcome of one run of the function body.
Handle(q, r) ==
    LET ws2 == after_call(q.ws, r, max_retries, delay_in_seconds,
                          should_abort_retry) IN
    [q EXCEPT !.ws = ws2, !.at = IF ws2.pc = "sleep" THEN "body" ELSE "done"]

\* A caller calls tax_calculator.fetch_tax_brackets(year, api_url).
StartFetch(r, y, u) ==
    /\ req[r].at = "idle"
    /\ fetches < MaxFetches
    /\ fetches' = fetches + 1
    /\ req' = [req EXCEPT ![r] = [Idle EXCEPT !.at = "body", !.year = y,
                                              !.api_url = u]]
    /\ UNCHANGED <<cacheVars, retryVars, threadVars, taxVars, restVars>>

\* One attempt, up to the upstream call: validation, then the cache lookup.
FetchBody(r) ==
    LET q == req[r]
        vu == validate_api_url(q.api_url)
        vy == validate_year(q.year)
        g == get(cache, get_cache_key(vy.value), now, ttl_in_seconds)
    IN
    /\ q.at = "body"
    /\ q.ws.pc = "call"
    /\ IF ~vu.ok THEN /\ req' = [req EXCEPT ![r] = Handle(q, vu.error)]
                      /\ cache' = cache
       ELSE IF ~vy.ok THEN /\ req' = [req EXCEPT ![r] = Handle(q, vy.error)]
                           /\ cache' = cache
       ELSE /\ cache' = g.cache
            /\ IF Truthy(g.value)
               THEN req' = [req EXCEPT ![r] =
                             [Handle(q, g.value) EXCEPT !.hit = TRUE,
                                                        !.cached_data = g.value]]
               ELSE req' = [req EXCEPT ![r].at = "http",
                                       ![r].cached_data = g.value]
    /\ UNCHANGED <<capacity, ttl_in_seconds, now, ret, storedAt, useOrder>>
    /\ UNCHANGED <<retryVars, fetches, threadVars, taxVars, restVars>>

\* An attempt that stores the body of every answer that has one before it
\* looks at it.
FetchHttp_store_first(r, resp) ==
    LET q == [req[r] EXCEPT !.gets = @ + 1, !.last = resp]
        key == get_cache_key(validate_year(q.year).value)
        p == put(cache, key, resp, now, capacity)
    IN
    /\ req[r].at = "http"
    /\ IF classify(resp) # "OK"
       THEN /\ req' = [req EXCEPT ![r] = Handle(q, classify(resp))]
            /\ cache' = IF resp = "nofield" THEN p.cache ELSE cache
       ELSE /\ cache' = p.cache
            /\ req' = [req EXCEPT ![r] =
                        IF p.raised # None THEN Handle(q, p.raised)
                        ELSE Handle([q EXCEPT !.puts = @ + 1], resp)]
    /\ UNCHANGED <<capacity, ttl_in_seconds, now, ret, storedAt, useOrder>>
    /\ UNCHANGED <<retryVars, fetches, threadVars, taxVars, restVars>>

\* requests.get returns or fails, and the rest of the attempt runs.
FetchHttp(r, resp) ==
    LET q == [req[r] EXCEPT !.gets = @ + 1, !.last = resp]
        key == get_cache_key(validate_year(q.year).value)
        p == put(cache, key, resp, now, capacity)
    IN
    /\ req[r].at = "http"
    /\ IF classify(resp) # "OK"
       THEN /\ req' = [req EXCEPT ![r] = Handle(q, classify(resp))]
            /\ cache' = cache
       ELSE /\ cache' = p.cache
            /\ req' = [req EXCEPT ![r] =
                        IF p.raised # None THEN Handle(q, p.raised)
                        ELSE Handle([q EXCEPT !.puts = @ + 1], resp)]
    /\ UNCHANGED <<capacity, ttl_in_seconds, now, ret, storedAt, useOrder>>
    /\ UNCHANGED <<retryVars, fetches, threadVars, taxVars, restVars>>

\* time.sleep(delay_in_seconds * (attempt + 1)) returns.
FetchSleep(r) ==
    /\ req[r].ws.pc = "sleep"
    /\ now' = now + req[r].ws.sleeps[Len(req[r].ws.sleeps)].delay
    /\ req' = [req EXCEPT ![r].ws = after_sleep(@)]
    /\ UNCHANGED <<cache, capacity, ttl_in_seconds, ret, storedAt, useOrder>>
    /\ UNCHANGED <<retryVars, fetches, threadVars, taxVars, restVars>>

\* The caller has its result or its exception.
FetchEnd(r) ==
    /\ req[r].at = "done"
    /\ req' = [req EXCEPT ![r] = Idle]
    /\ UNCHANGED <<cacheVars, retryVars, fetches, threadVars, taxVars, restVars>>

\* cache_routes.clear_cache
ClearCache ==
    /\ cache # << >>
    /\ cache' = clear(cache)
    /\ UNCHANGED <<capacity, ttl_in_seconds, now, ret, storedAt, useOrder>>
    /\ UNCHANGED <<retryVars, fetchVars, threadVars, taxVars, restVars>>

\* cache_routes.clear_year_cache
ClearYearCache(year) ==
    /\ contains(cache, get_cache_key(year))
    /\ cache' = delitem(cache, get_cache_key(year))
    /\ UNCHANGED <<capacity, ttl_in_seconds, now, ret, storedAt, useOrder>>
    /\ UNCHANGED <<retryVars, fetchVars, threadVars, taxVars, restVars>>

\* A month passes.
TickMonth ==
    /\ now < MaxMonths * ONE_MONTH_IN_SECONDS
    /\ now' = now + ONE_MONTH_IN_SECONDS
    /\ UNCHANGED <<cache, capacity, ttl_in_seconds, ret, storedAt, useOrder>>
    /\ UNCHANGED <<retryVars, fetchVars, threadVars, taxVars, restVars>>

NextFetch ==
    \/ \E r \in DOMAIN req, y \in YearInputs, u \in UrlInputs : StartFetch(r, y, u)
    \/ \E r \in DOMAIN req : FetchBody(r)
    \/ \E r \in DOMAIN req, resp \in Responses : FetchHttp(r, resp)
    \/ \E r \in DOMAIN req : FetchSleep(r)
    \/ \E r \in DOMAIN req : FetchEnd(r)
    \/ ClearCache
    \/ \E y \in {2019, 2023} : ClearYearCache(y)
    \/ TickMonth

SpecFetch == InitFetch /\ [][NextFetch]_vars

----------------------------------------------------------------------------
(* Properties of one call of fetch_tax_brackets *)

InputInvalid(q) == ~validate_api_url(q.api_url).ok \/ ~validate_year(q.year).ok

LastSleep(ws) == ws.sleeps[Len(ws.sleeps)]

\* C1: a call whose api_url or year fails validation makes exactly one
\* attempt, never sleeps, touches neither the cache nor the upstream service,
\* and ends with the ValidationError.
ValidationFailsAtOnce ==
    \A r \in DOMAIN req :
        (req[r].at # "idle" /\ InputInvalid(req[r])) =>
            /\ Len(req[r].ws.calls) <= 1
            /\ req[r].ws.sleeps = << >>
            /\ req[r].gets = 0
            /\ req[r].puts = 0
            /\ Len(req[r].ws.calls) = 1 =>
                 /\ req[r].at = "done"
                 /\ req[r].ws.pc = "raised"
                 /\ req[r].ws.result = "ValidationError"

\* C2 as stated: an upstream 404 ends the call: the not-found error is
\* raised and neither a sleep nor another attempt follows.
NotFoundIsTerminal ==
    \A r \in DOMAIN req :
        req[r].last = "404" =>
            /\ req[r].at = "done"
            /\ req[r].ws.pc = "raised"
            /\ req[r].ws.result = "ResourceNotFoundError"
            /\ Len(req[r].ws.sleeps) = req[r].gets - 1

\* C2 amended: an upstream 404 is retried like any API error. After a 404
\* on an attempt before the last the wrapper sleeps attempt * delay and
\* attempts again; after a 404 on the last attempt the call raises
\* ResourceNotFoundError, having slept after every earlier attempt.
NotFoundIsRetried ==
    \A r \in DOMAIN req :
        req[r].last = "404" =>
            /\ req[r].puts = 0
            /\ req[r].gets <= max_retries
            /\ IF req[r].gets < max_retries
               THEN /\ req[r].ws.pc \in {"sleep", "call"}
                    /\ req[r].at \in {"body", "http"}
                    /\ Len(req[r].ws.sleeps) = req[r].gets
                    /\ LastSleep(req[r].ws) =
                         [after |-> req[r].gets,
                          delay |-> delay_in_seconds * req[r].gets]
               ELSE /\ req[r].at = "done"
                    /\ req[r].ws.pc = "raised"
                    /\ req[r].ws.result = "ResourceNotFoundError"
                    /\ Len(req[r].ws.calls) = max_retries
                    /\ Len(req[r].ws.sleeps) = max_retries - 1

\* C2 witness: the third GET of a call was answered 404 and the call raised
\* the not-found error after sleeping 1 s and 2 s.
NotFoundAfterThreeGets ==
    \E r \in DOMAIN req :
        /\ req[r].last = "404"
        /\ req[r].gets = 3
        /\ req[r].ws.pc = "raised"
        /\ req[r].ws.result = "ResourceNotFoundError"
        /\ req[r].ws.sleeps =
             <<[after |-> 1, delay |-> 1], [after |-> 2, delay |-> 2]>>

\* C3: an upstream 429 ends the call: RateLimitError is raised, no sleep and
\* no attempt follows it, the call has not written the cache, and a 429 on
\* the first GET leaves exactly one GET and no sleep.
RateLimitIsTerminal ==
    \A r \in DOMAIN req :
        req[r].last = "429" =>
            /\ req[r].at = "done"
            /\ req[r].ws.pc = "raised"
            /\ req[r].ws.result = "RateLimitError"
            /\ Len(req[r].ws.calls) = req[r].gets
            /\ Len(req[r].ws.sleeps) = req[r].gets - 1
            /\ req[r].puts = 0
            /\ req[r].ws.calls[1] = "RateLimitError" =>
                 (req[r].gets = 1 /\ req[r].ws.sleeps = << >>)

\* C3 witness: the first GET of a call was answered 429 and the call raised
\* RateLimitError.
RateLimitedOnFirstGet ==
    \E r \in DOMAIN req :
        /\ req[r].last = "429"
        /\ req[r].gets = 1
        /\ req[r].ws.pc = "raised"
        /\ req[r].ws.result = "RateLimitError"
        /\ req[r].ws.sleeps = << >>

\* The upstream failures that are transient or a malformed success body: a
\* status >= 500, a connection failure, a 2xx body without tax_brackets.
UpstreamFailures == {"500", "neterr", "nofield", "nonobject"}

\* C14: a GET that ends in a status >= 500, a connection failure or a 2xx
\* body without the tax_brackets field is retried within the budget: before
\* the third GET the wrapper sleeps 1 s after the first failure and 2 s
\* after the second and attempts again, the APIError is raised only after
\* the third failure, and a GET answered with brackets ends the call with
\* those brackets.
UpstreamFailureIsRetried ==
    \A r \in DOMAIN req :
        /\ req[r].last \in UpstreamFailures =>
              /\ req[r].puts = 0
              /\ req[r].gets <= DefaultMaxRetries
              /\ Len(req[r].ws.calls) = req[r].gets
              /\ IF req[r].gets < DefaultMaxRetries
                 THEN /\ req[r].ws.pc \in {"sleep", "call"}
                      /\ req[r].at \in {"body", "http"}
                      /\ Len(req[r].ws.sleeps) = req[r].gets
                      /\ LastSleep(req[r].ws) =
                           [after |-> req[r].gets,
                            delay |-> DefaultDelay * req[r].gets]
                 ELSE /\ req[r].at = "done"
                      /\ req[r].ws.pc = "raised"
                      /\ req[r].ws.result = "APIError"
                      /\ Len(req[r].ws.sleeps) = DefaultMaxRetries - 1
        /\ req[r].last \in Brackets =>
              /\ req[r].at = "done"
              /\ req[r].ws.pc = "returned"
              /\ req[r].ws.result = req[r].last
              /\ ~req[r].hit
              /\ req[r].gets <= DefaultMaxRetries
              /\ Len(req[r].ws.sleeps) = req[r].gets - 1

\* The key of the year a call asks for.
KeyOf(q) == get_cache_key(validate_year(q.year).value)

\* The cache holds an entry under key k that a get at this moment returns.
Unexpired(k) ==
    Has(cache, k) /\ now - Lookup(cache, k).timestamp <= ttl_in_seconds

\* C15: a call whose lookup found an unexpired entry for its year returns
\* the bracket list of that entry with wasCacheHit = true, and has issued no
\* upstream GET and has not slept.
CachedEntryIsHit ==
    \A r \in DOMAIN req :
        req[r].cached_data # None =>
            /\ req[r].at = "done"
            /\ req[r].ws.pc = "returned"
            /\ req[r].ws.result = req[r].cached_data
            /\ req[r].hit
            /\ req[r].gets = 0
            /\ req[r].ws.sleeps = << >>

\* C16: a call that returns after a successful GET has stored the brackets
\* it returns under brackets_<y> and reports wasCacheHit = false; while that
\* entry is in the cache and unexpired, whatever bracket list it holds, no
\* call for y goes past its lookup to the upstream service; and a call
\* reports a hit only when its lookup found an entry, so that after a
\* clear-all or a delete of the key the next call for y misses.
FetchStoresThenHits ==
    \A r \in DOMAIN req :
        /\ (req[r].at = "done" /\ req[r].ws.pc = "returned" /\ ~req[r].hit) =>
              /\ req[r].puts = 1
              /\ req[r].last \in Brackets
              /\ req[r].ws.result = req[r].last
        /\ (req[r].puts = 1 /\ Has(cache, KeyOf(req[r]))) =>
              Lookup(cache, KeyOf(req[r])).value = req[r].last
        /\ (req[r].at = "http" /\ ~InputInvalid(req[r])) =>
              ~Unexpired(KeyOf(req[r]))
        /\ req[r].hit =>
              /\ req[r].cached_data \in Brackets
              /\ req[r].gets = 0
              /\ req[r].puts = 0

----------------------------------------------------------------------------
(* fetch_tax_brackets called by two callers at once. The upstream GET of an
   attempt and the put that follows a 2xx answer are separate steps, so that
   the GETs and the puts of the two callers interleave; each cache method is
   one step here (their statements are interleaved in SpecThreads). *)

Callers == {"r1", "r2"}
ConcurrentYears == {[kind |-> "int", n |-> 2019], [kind |-> "int", n |-> 2023]}
ConcurrentUrl == [scheme |-> "http", netloc |-> "api", path |-> ""]
ConcurrentResponses == {"B1", "B2", "500"}

InitConcurrentFetch ==
    /\ cache = << >>
    /\ capacity = DefaultCapacity
    /\ ttl_in_seconds = ONE_MONTH_IN_SECONDS
    /\ now = 0
    /\ ret = Ret("init", None, None, None, None)
    /\ storedAt = << >>
    /\ useOrder = << >>
    /\ max_retries = DefaultMaxRetries
    /\ delay_in_seconds = DefaultDelay
    /\ should_abort_retry = "is_rate_limit"
    /\ plan = << >>
    /\ w = None
    /\ req = [r \in Callers |-> Idle]
    /\ fetches = 0
    /\ th = << >>
    /\ ops = 0
    /\ salary = None
    /\ brackets = None
    /\ tax_result = None
    /\ NoCallers /\ NoRoutes /\ NoLimiter

\* requests.get returns or fails; an answer that is not a 2xx body with
\* tax_brackets ends the attempt.
FetchGet(r, resp) ==
    LET q == [req[r] EXCEPT !.gets = @ + 1, !.last = resp] IN
    /\ req[r].at = "http"
    /\ req' = [req EXCEPT ![r] = IF classify(resp) # "OK"
                                 THEN Handle(q, classify(resp))
                                 ELSE [q EXCEPT !.at = "store"]]
    /\ UNCHANGED <<cacheVars, retryVars, fetches, threadVars, taxVars, restVars>>

\* tax_brackets_cache.put(cache_key, data["tax_brackets"]) and the return.
FetchStore(r) ==
    LET q == req[r]
        p == put(cache, KeyOf(q), q.last, now, capacity)
    IN
    /\ q.at = "store"
    /\ cache' = p.cache
    /\ req' = [req EXCEPT ![r] =
                 IF p.raised # None THEN Handle(q, p.raised)
                 ELSE Handle([q EXCEPT !.puts = @ + 1], q.last)]
    /\ UNCHANGED <<capacity, ttl_in_seconds, now, ret, storedAt, useOrder>>
    /\ UNCHANGED <<retryVars, fetches, threadVars, taxVars, restVars>>

NextConcurrentFetch ==
    \/ \E r \in DOMAIN req, y \in ConcurrentYears : StartFetch(r, y, ConcurrentUrl)
    \/ \E r \in DOMAIN req : FetchBody(r)
    \/ \E r \in DOMAIN req, resp \in ConcurrentResponses : FetchGet(r, resp)
    \/ \E r \in DOMAIN req : FetchStore(r)
    \/ \E r \in DOMAIN req : FetchSleep(r)
    \/ \E r \in DOMAIN req : FetchEnd(r)
    \/ ClearCache
    \/ \E y \in {2019, 2023} : ClearYearCache(y)
    \/ TickMonth

SpecConcurrentFetch == InitConcurrentFetch /\ [][NextConcurrentFetch]_vars

\* The indices of the entries of the cache stored under key k.
EntriesOf(c, k) == {i \in 1..Len(c) : c[i].key = k}

\* C17: the cache never holds two entries under one key; a put of a fetch
\* leaves under the year's key the one entry with the brackets that fetch
\* received and the time of that put, whatever entry another fetch had put
\* there before; and no step but a put changes the value or the timestamp
\* of an entry that stays in the cache. So after two fetches of one year
\* that both succeeded the entry is that of the put that ran last.
LastWriterWins ==
    [][/\ \A r \in DOMAIN req :
            req'[r].puts = req[r].puts + 1 =>
              /\ Cardinality(EntriesOf(cache', KeyOf(req[r]))) = 1
              /\ Lookup(cache', KeyOf(req[r])) =
                   Entry(KeyOf(req[r]), req[r].last, now)
       /\ \A k \in KeysOf(cache') :
            /\ Cardinality(EntriesOf(cache', k)) = 1
            /\ (\A r \in DOMAIN req :
                   ~(req'[r].puts = req[r].puts + 1 /\ KeyOf(req[r]) = k)) =>
                 /\ Has(cache, k)
                 /\ Lookup(cache', k) = Lookup(cache, k)]_vars

\* C17 witness: both callers asked for 2019, both lookups missed, both
\* issued one GET and both puts succeeded; the upstream gave them different
\* brackets, r1 put first and the entry holds what r2 put later.
BothMissedBothFetched ==
    /\ \A r \in Callers :
         /\ req[r].at = "done"
         /\ req[r].year.n = 2019
         /\ req[r].cached_data = None
         /\ req[r].gets = 1
         /\ req[r].puts = 1
         /\ req[r].ws.pc = "returned"
         /\ ~req[r].hit
    /\ req["r1"].last = "B1"
    /\ req["r2"].last = "B2"
    /\ Cardinality(EntriesOf(cache, get_cache_key(2019))) = 1
    /\ Lookup(cache, get_cache_key(2019)).value = "B2"

----------------------------------------------------------------------------
(* app/core/cache.py used by several threads. LRUCache takes no lock: each
   statement of a method that reads or writes the OrderedDict is one step,
   and the statements of different threads interleave. *)

Threads == {"t1", "t2"}

ThreadIdle ==
    [pc |-> "idle", op |-> None, key |-> None, value |-> None,
     read |-> None, raised |-> None, result |-> None]

InitThreads ==
    /\ cache = << >>
    /\ capacity \in 1..MaxCapacity
    /\ ttl_in_seconds \in 0..MaxTtl
    /\ now = 0
    /\ ret = Ret("init", None, None, None, None)
    /\ storedAt = << >>
    /\ useOrder = << >>
    /\ max_retries = 0
    /\ delay_in_seconds = 0
    /\ should_abort_retry = None
    /\ plan = << >>
    /\ w = None
    /\ req = << >>
    /\ fetches = 0
    /\ th = [t \in Threads |-> ThreadIdle]
    /\ ops = 0
    /\ salary = None
    /\ brackets = None
    /\ tax_result = None
    /\ NoCallers /\ NoRoutes /\ NoLimiter

ThreadFrame ==
    UNCHANGED <<capacity, ttl_in_seconds, now, ret, storedAt, useOrder,
                retryVars, fetchVars, taxVars, restVars>>

Return(t, v) == [th EXCEPT ![t] = [ThreadIdle EXCEPT !.result = v]]

Raise(t, e) == [th EXCEPT ![t] = [ThreadIdle EXCEPT !.raised = e]]

\* A thread calls a method of the cache.
Call(t, op, k, v) ==
    /\ th[t].pc = "idle"
    /\ ops < MaxOps
    /\ ops' = ops + 1
    /\ th' = [th EXCEPT ![t] = [ThreadIdle EXCEPT !.pc = op, !.op = op,
                                                  !.key = k, !.value = v]]
    /\ cache' = cache
    /\ ThreadFrame

\* get: if key not in self.cache: return None
GetCheck(t) ==
    /\ th[t].pc = "get"
    /\ th' = IF Has(cache, th[t].key) THEN [th EXCEPT ![t].pc = "get_read"]
             ELSE Return(t, None)
    /\ UNCHANGED <<cache, ops>>
    /\ ThreadFrame

\* get: value, timestamp = self.cache[key], and the comparison of the age
GetRead(t) ==
    /\ th[t].pc = "get_read"
    /\ th' = IF ~Has(cache, th[t].key) THEN Raise(t, "KeyError")
             ELSE IF now - Lookup(cache, th[t].key).timestamp > ttl_in_seconds
             THEN [th EXCEPT ![t].pc = "get_del"]
             ELSE [th EXCEPT ![t].pc = "get_move",
                             ![t].read = Lookup(cache, th[t].key).value]
    /\ UNCHANGED <<cache, ops>>
    /\ ThreadFrame

\* get: del self.cache[key]; return None
GetDel(t) ==
    /\ th[t].pc = "get_del"
    /\ IF Has(cache, th[t].key)
       THEN cache' = DelKey(cache, th[t].key) /\ th' = Return(t, None)
       ELSE cache' = cache /\ th' = Raise(t, "KeyError")
    /\ UNCHANGED ops
    /\ ThreadFrame

\* get: self.cache.move_to_end(key); return value
GetMove(t) ==
    /\ th[t].pc = "get_move"
    /\ IF Has(cache, th[t].key)
       THEN cache' = MoveToEnd(cache, th[t].key) /\ th' = Return(t, th[t].read)
       ELSE cache' = cache /\ th' = Raise(t, "KeyError")
    /\ UNCHANGED ops
    /\ ThreadFrame

\* put: if key in self.cache
PutCheck(t) ==
    /\ th[t].pc = "put"
    /\ th' = [th EXCEPT ![t].pc = IF Has(cache, th[t].key) THEN "put_del"
                                  ELSE "put_len"]
    /\ UNCHANGED <<cache, ops>>
    /\ ThreadFrame

\* put: del self.cache[key]
PutDel(t) ==
    /\ th[t].pc = "put_del"
    /\ IF Has(cache, th[t].key)
       THEN cache' = DelKey(cache, th[t].key) /\ th' = [th EXCEPT ![t].pc = "put_store"]
       ELSE cache' = cache /\ th' = Raise(t, "KeyError")
    /\ UNCHANGED ops
    /\ ThreadFrame

\* put: elif len(self.cache) >= self.capacity
PutLen(t) ==
    /\ th[t].pc = "put_len"
    /\ th' = [th EXCEPT ![t].pc = IF Len(cache) >= capacity THEN "put_pop"
                                  ELSE "put_store"]
    /\ UNCHANGED <<cache, ops>>
    /\ ThreadFrame

\* put: self.cache.popitem(last=False)
PutPop(t) ==
    /\ th[t].pc = "put_pop"
    /\ IF Len(cache) > 0
       THEN cache' = Tail(cache) /\ th' = [th EXCEPT ![t].pc = "put_store"]
       ELSE cache' = cache /\ th' = Raise(t, "KeyError")
    /\ UNCHANGED ops
    /\ ThreadFrame

\* put: self.cache[key] = (value, datetime.now().timestamp()); a key that is
\* present keeps its place in the order.
PutStore(t) ==
    /\ th[t].pc = "put_store"
    /\ cache' = IF Has(cache, th[t].key)
                THEN [i \in 1..Len(cache) |->
                        IF cache[i].key = th[t].key
                        THEN Entry(th[t].key, th[t].value, now) ELSE cache[i]]
                ELSE Append(cache, Entry(th[t].key, th[t].value, now))
    /\ th' = [th EXCEPT ![t].pc = "put_move"]
    /\ UNCHANGED ops
    /\ ThreadFrame

\* put: self.cache.move_to_end(key)
PutMove(t) ==
    /\ th[t].pc = "put_move"
    /\ IF Has(cache, th[t].key)
       THEN cache' = MoveToEnd(cache, th[t].key) /\ th' = Return(t, None)
       ELSE cache' = cache /\ th' = Raise(t, "KeyError")
    /\ UNCHANGED ops
    /\ ThreadFrame

\* __delitem__: if key in self.cache
DelCheck(t) ==
    /\ th[t].pc = "delete"
    /\ th' = IF Has(cache, th[t].key) THEN [th EXCEPT ![t].pc = "del_del"]
             ELSE Return(t, None)
    /\ UNCHANGED <<cache, ops>>
    /\ ThreadFrame

\* __delitem__: del self.cache[key]
DelDel(t) ==
    /\ th[t].pc = "del_del"
    /\ IF Has(cache, th[t].key)
       THEN cache' = DelKey(cache, th[t].key) /\ th' = Return(t, None)
       ELSE cache' = cache /\ th' = Raise(t, "KeyError")
    /\ UNCHANGED ops
    /\ ThreadFrame

\* clear: self.cache.clear()
ClearStep(t) ==
    /\ th[t].pc = "clear"
    /\ cache' = clear(cache)
    /\ th' = Return(t, None)
    /\ UNCHANGED ops
    /\ ThreadFrame

\* __contains__: return key in self.cache
ContainsStep(t) ==
    /\ th[t].pc = "contains"
    /\ th' = Return(t, IF contains(cache, th[t].key) THEN "True" ELSE "False")
    /\ UNCHANGED <<cache, ops>>
    /\ ThreadFrame

\* The clock moves on.
TickThreads ==
    /\ now < MaxNow
    /\ now' = now + 1
    /\ UNCHANGED <<cache, capacity, ttl_in_seconds, ret, storedAt, useOrder>>
    /\ UNCHANGED <<retryVars, fetchVars, threadVars, taxVars, restVars>>

NextThreads ==
    \/ \E t \in Threads, k \in Keys : Call(t, "get", k, None)
    \/ \E t \in Threads, k \in Keys, v \in Values : Call(t, "put", k, v)
    \/ \E t \in Threads, k \in Keys : Call(t, "delete", k, None)
    \/ \E t \in Threads : Call(t, "clear", None, None)
    \/ \E t \in Threads, k \in Keys : Call(t, "contains", k, None)
    \/ \E t \in Threads : GetCheck(t)
    \/ \E t \in Threads : GetRead(t)
    \/ \E t \in Threads : GetDel(t)
    \/ \E t \in Threads : GetMove(t)
    \/ \E t \in Threads : PutCheck(t)
    \/ \E t \in Threads : PutDel(t)
    \/ \E t \in Threads : PutLen(t)
    \/ \E t \in Threads : PutPop(t)
    \/ \E t \in Threads : PutStore(t)
    \/ \E t \in Threads : PutMove(t)
    \/ \E t \in Threads : DelCheck(t)
    \/ \E t \in Threads : DelDel(t)
    \/ \E t \in Threads : ClearStep(t)
    \/ \E t \in Threads : ContainsStep(t)
    \/ TickThreads

SpecThreads == InitThreads /\ [][NextThreads]_vars

\* The two halves of C9, each of which the unlocked cache violates.
ThreadsWithinCapacity == Len(cache) <= capacity

ThreadsNeverRaise == \A t \in Threads : th[t].raised = None

\* C9: with several threads on one cache every operation is atomic: the
\* cache never holds more than capacity entries and no operation fails
\* because another thread changed the cache between its check and its update.
ThreadSafeCache == ThreadsWithinCapacity /\ ThreadsNeverRaise

----------------------------------------------------------------------------
(* app/utils/validators.py validate_salary and TaxCalculator.calculate_taxes.
   Amounts are whole cents, rates are whole hundredths of a percent
   (rate * 10000), the effective rate and the rate of a breakdown entry are
   hundredths of a percent. round(x, 2) of a float yields a nearest value
   with two decimals; where the exact x lies half way between two of them
   the float at hand lies on either side, so both are outcomes. *)

\* re.sub(r'[,\s_]', '', salary)
cleaned_salary(text) == SelectSeq(text, LAMBDA c : c \notin {",", " ", "_"})

\* re.match(r'^-?\d*\.?\d+$', cleaned_salary)
MatchesNumber(text) ==
    LET t == IF text # << >> /\ Head(text) = "-" THEN Tail(text) ELSE text IN
    /\ t # << >>
    /\ \A i \in 1..Len(t) : IsDigit(t[i]) \/ t[i] = "."
    /\ Cardinality({i \in 1..Len(t) : t[i] = "."}) <= 1
    /\ IsDigit(t[Len(t)])

\* float(cleaned_salary), in cents, of a text that matches and has at most
\* two digits after the point.
ParseCents(text) ==
    LET neg == Head(text) = "-"
        t == IF neg THEN Tail(text) ELSE text
        dots == {i \in 1..Len(t) : t[i] = "."}
        dot == IF dots = {} THEN Len(t) + 1 ELSE CHOOSE i \in dots : TRUE
        whole == DigitsToNat(SubSeq(t, 1, dot - 1))
        frac == SubSeq(t, dot + 1, Len(t))
        cents == IF Len(frac) = 0 THEN 0
                 ELSE IF Len(frac) = 1 THEN DigitVal(frac[1]) * 10
                 ELSE DigitVal(frac[1]) * 10 + DigitVal(frac[2])
        n == whole * 100 + cents
    IN IF neg THEN 0 - n ELSE n

\* validate_salary: None, 0 and "" yield 0.0, a number yields itself, a
\* string is cleaned, matched and converted.
\* A float that is NaN is a number as well (kind "nan": json.loads reads the
\* literal NaN); float(salary) returns it, and value means nothing then.
validate_salary(s) ==
    IF s.kind = "none" THEN [ok |-> TRUE, value |-> 0, nan |-> FALSE]
    ELSE IF s.kind = "nan" THEN [ok |-> TRUE, value |-> 0, nan |-> TRUE]
    ELSE IF s.kind = "num" THEN [ok |-> TRUE, value |-> s.cents, nan |-> FALSE]
    ELSE IF s.text = << >> THEN [ok |-> TRUE, value |-> 0, nan |-> FALSE]
    ELSE IF ~MatchesNumber(cleaned_salary(s.text))
    THEN [ok |-> FALSE, value |-> 0, nan |-> FALSE]
    ELSE [ok |-> TRUE, value |-> ParseCents(cleaned_salary(s.text)),
          nan |-> FALSE]

\* The integers nearest to n / d, for d > 0: two of them when n / d lies
\* half way.
Nearest(n, d) ==
    LET f == n \div d
        r == n - f * d
    IN IF 2 * r < d THEN {f} ELSE IF 2 * r > d THEN {f + 1} ELSE {f, f + 1}

\* round(a * b / d), the product split so that it stays a machine integer.
MulDivNearest(a, b, d) ==
    LET q == a \div d
        r == a - q * d
    IN {q * b + x : x \in Nearest(r * b, d)}

\* k more decimal digits of the quotient of r / s, by long division.
RECURSIVE DivDigits(_, _, _, _)
DivDigits(q, r, s, k) ==
    IF k = 0 THEN [q |-> q, r |-> r]
    ELSE DivDigits(q * 10 + (r * 10) \div s, (r * 10) % s, s, k - 1)

\* round(total / salary * 100, 2) in hundredths of a percent, salary # 0.
RatioNearest(total, sal) ==
    LET s == IF sal < 0 THEN 0 - sal ELSE sal
        t == IF total < 0 THEN 0 - total ELSE total
        d == DivDigits(t \div s, t % s, s, 4)
        m == IF 2 * d.r < s THEN {d.q}
             ELSE IF 2 * d.r > s THEN {d.q + 1} ELSE {d.q, d.q + 1}
    IN IF (sal < 0) = (total < 0) THEN m ELSE {0 - x : x \in m}

Bracket(lo, hi, hasMax, rate) ==
    [min |-> lo, max |-> hi, hasMax |-> hasMax, rate |-> rate]

\* [{"min": 0, "max": 50000, "rate": 0.15}, {"min": 50000, "rate": 0.205}]
TwoBrackets ==
    <<Bracket(0, 5000000, TRUE, 1500), Bracket(5000000, 0, FALSE, 2050)>>

\* The table of 2023.
Brackets2023 ==
    <<Bracket(0, 5335900, TRUE, 1500),
      Bracket(5335900, 10671700, TRUE, 2050),
      Bracket(10671700, 16543000, TRUE, 2600),
      Bracket(16543000, 23567500, TRUE, 2900),
      Bracket(23567500, 0, FALSE, 3300)>>

\* Lists that are not in ascending order.
TwoBracketsReversed ==
    <<Bracket(5000000, 0, FALSE, 2050), Bracket(0, 5000000, TRUE, 1500)>>

ThreeBracketsUnsorted ==
    <<Bracket(10000000, 0, FALSE, 2600),
      Bracket(0, 5000000, TRUE, 1500),
      Bracket(5000000, 10000000, TRUE, 2050)>>

\* An ascending list with the rates 100 %, 0 % and 100 % and a first bracket
\* of one dollar.
ThreeBracketsFullRate ==
    <<Bracket(0, 100, TRUE, 10000),
      Bracket(100, 5000000, TRUE, 0),
      Bracket(5000000, 0, FALSE, 10000)>>

\* The brackets arguments: None, the empty list and the lists above.
BracketInputs ==
    {[none |-> TRUE, list |-> << >>]}
    \cup {[none |-> FALSE, list |-> l] :
            l \in {<< >>, TwoBrackets, Brackets2023, TwoBracketsReversed,
                   ThreeBracketsUnsorted, ThreeBracketsFullRate}}

\* The salary arguments: None, numbers (in cents) and strings.
SalaryInputs ==
    {[kind |-> "none", cents |-> 0, text |-> << >>]}
    \cup {[kind |-> "num", cents |-> c, text |-> << >>] :
            c \in {0 - 550, 0 - 500, 0, 50, 5000000, 7500000, 7500050,
                   10000000, 12000000, 50000000}}
    \cup {[kind |-> "str", cents |-> 0, text |-> << >>],
     [kind |-> "str", cents |-> 0, text |-> <<"7", "5", "0", "0", "0">>],
     [kind |-> "str", cents |-> 0, text |-> <<"7", "5", ",", "0", "0", "0", ".", "5", "0">>],
     [kind |-> "str", cents |-> 0, text |-> <<"1", "_", "0", "0", "0">>],
     [kind |-> "str", cents |-> 0, text |-> <<" ", "7", " ", "5", " ">>],
     [kind |-> "str", cents |-> 0, text |-> <<".", "5">>],
     [kind |-> "str", cents |-> 0, text |-> <<"-", "5">>],
     [kind |-> "str", cents |-> 0, text |-> <<"-", "5", ".", "5", "0">>],
     [kind |-> "str", cents |-> 0, text |-> <<"a", "b", "c">>],
     [kind |-> "str", cents |-> 0, text |-> <<"5", ".">>],
     [kind |-> "str", cents |-> 0, text |-> <<"1", ".", "2", ".", "3">>],
     [kind |-> "str", cents |-> 0, text |-> <<"-">>],
     [kind |-> "str", cents |-> 0, text |-> <<"0">>],
     [kind |-> "str", cents |-> 0, text |-> <<" ">>]}

Min2(a, b) == IF a < b THEN a ELSE b

\* A taxable amount that is never capped at the width of the bracket.
taxable_in_bracket_uncapped(sal, b) == sal - b.min

\* min(salary - min_amount, max_amount - min_amount if "max" in bracket
\*     else salary - min_amount)
taxable_in_bracket(sal, b) ==
    IF b.hasMax THEN Min2(sal - b.min, b.max - b.min) ELSE sal - b.min

\* A test that lets in the bracket whose min the salary equals.
reached_or_equal(sal, b) == sal >= b.min

\* if salary > min_amount
reached(sal, b) == sal > b.min

\* f"${min_amount:,.2f} to ${max_amount:,.2f}" or f"Over ${min_amount:,.2f}"
bracket_label(b) ==
    IF b.hasMax THEN <<"$", b.min, " to $", b.max>> ELSE <<"Over $", b.min>>

\* The entries the loop can append for one bracket that is reached.
EntriesFor(sal, b) ==
    {[bracket |-> bracket_label(b), tax_amount |-> t, rate |-> b.rate] :
        t \in MulDivNearest(taxable_in_bracket(sal, b), b.rate, 10000)}

\* The loop over the brackets, in the order of the list.
RECURSIVE taxes_per_bracket(_, _)
taxes_per_bracket(sal, bs) ==
    IF bs = << >> THEN {<< >>}
    ELSE IF reached(sal, Head(bs))
    THEN {<<e>> \o rest : e \in EntriesFor(sal, Head(bs)),
                          rest \in taxes_per_bracket(sal, Tail(bs))}
    ELSE taxes_per_bracket(sal, Tail(bs))

\* total_tax: the sum of the rounded amounts, rounded (it is whole cents).
RECURSIVE total_tax(_)
total_tax(es) ==
    IF es = << >> THEN 0 ELSE es[1].tax_amount + total_tax(Tail(es))

\* A call that raised exception e with message msg.
TaxRaised(e, msg) ==
    [raised |-> e, message |-> msg, total_tax |-> 0, effective_rate |-> 0,
     taxes_per_bracket |-> << >>, nan |-> FALSE]

\* The result for a salary that is NaN: salary > bracket["min"] is false for
\* every bracket, total_tax stays 0 and total_tax / salary is NaN (nan tells
\* that effective_rate is NaN).
TaxOfNaN ==
    [raised |-> None, message |-> None, total_tax |-> 0, effective_rate |-> 0,
     taxes_per_bracket |-> << >>, nan |-> TRUE]

\* A calculate_taxes that parses the salary before it looks at the brackets.
calculate_taxes_salary_first(sal, br) ==
    LET v == validate_salary(sal) IN
    IF ~v.ok THEN {TaxRaised("ValidationError", "Invalid salary format")}
    ELSE IF br.none \/ br.list = << >>
    THEN {TaxRaised("ValidationError", "Tax brackets cannot be empty")}
    ELSE IF v.nan THEN {TaxOfNaN}
    ELSE IF v.value = 0
    THEN {TaxRaised("ZeroDivisionError", "float division by zero")}
    ELSE UNION {{[raised |-> None, message |-> None,
                  total_tax |-> total_tax(es),
                  effective_rate |-> e, taxes_per_bracket |-> es,
                  nan |-> FALSE] :
                   e \in RatioNearest(total_tax(es), v.value)} :
                es \in taxes_per_bracket(v.value, br.list)}

\* TaxCalculator.calculate_taxes: the results the call can have.
calculate_taxes(sal, br) ==
    IF br.none \/ br.list = << >>
    THEN {TaxRaised("ValidationError", "Tax brackets cannot be empty")}
    ELSE LET v == validate_salary(sal) IN
         IF ~v.ok THEN {TaxRaised("ValidationError", "Invalid salary format")}
         ELSE IF v.nan THEN {TaxOfNaN}
         ELSE IF v.value = 0
         THEN {TaxRaised("ZeroDivisionError", "float division by zero")}
         ELSE UNION {{[raised |-> None, message |-> None,
                       total_tax |-> total_tax(es),
                       effective_rate |-> e, taxes_per_bracket |-> es,
                       nan |-> FALSE] :
                        e \in RatioNearest(total_tax(es), v.value)} :
                     es \in taxes_per_bracket(v.value, br.list)}

InitTax ==
    /\ cache = << >>
    /\ capacity = 0
    /\ ttl_in_seconds = 0
    /\ now = 0
    /\ ret = Ret("init", None, None, None, None)
    /\ storedAt = << >>
    /\ useOrder = << >>
    /\ max_retries = 0
    /\ delay_in_seconds = 0
    /\ should_abort_retry = None
    /\ plan = << >>
    /\ w = None
    /\ req = << >>
    /\ fetches = 0
    /\ th = << >>
    /\ ops = 0
    /\ salary \in SalaryInputs
    /\ brackets \in BracketInputs
    /\ tax_result = TaxRaised("pending", None)
    /\ NoCallers /\ NoRoutes /\ NoLimiter

\* tax_calculator.calculate_taxes(salary, brackets) returns or raises.
Calculate ==
    /\ tax_result.raised = "pending"
    /\ tax_result' \in calculate_taxes(salary, brackets)
    /\ UNCHANGED <<salary, brackets>>
    /\ UNCHANGED <<cacheVars, retryVars, fetchVars, threadVars, restVars>>

NextTax == Calculate

SpecTax == InitTax /\ [][NextTax]_vars

----------------------------------------------------------------------------
(* Properties of calculate_taxes *)

\* The parsed salary of the call.
SalaryValue == validate_salary(salary).value

\* The brackets of the list whose min lies below the salary, in list order.
BracketsBelow(sal) == SelectSeq(brackets.list, LAMBDA b : b.min < sal)

\* t is a nearest whole number of cents to amount * rate / 10000.
WithinHalfCent(t, amount, rate) ==
    LET q == amount \div 10000
        r == amount - q * 10000
        k == t - q * rate
        d == 10000 * k - r * rate
    IN k >= 0 - 1 /\ k <= rate + 1 /\ d <= 5000 /\ 0 - d <= 5000

\* C18: for a salary > 0 and a non-empty bracket list calculate_taxes
\* returns; the entry of each bracket with salary > min has the tax
\* round2(min(salary - min, max - min) * rate), with salary - min for a
\* bracket without max; the total is the sum of these rounded amounts and
\* the effective rate is round2(total / salary * 100). Salary 75000 with
\* [0 to 50000 at 15%, over 50000 at 20.5%] gives 7500.00, 5125.00, total
\* 12625.00 and rate 16.83; salary 500000 with the table of 2023 gives total
\* 141805.92 and rate 28.36.
TaxArithmetic ==
    /\ (/\ tax_result.raised # "pending"
        /\ ~brackets.none /\ brackets.list # << >>
        /\ validate_salary(salary).ok /\ SalaryValue > 0) =>
         LET bs == BracketsBelow(SalaryValue)
             es == tax_result.taxes_per_bracket
         IN /\ tax_result.raised = None
            /\ Len(es) = Len(bs)
            /\ \A i \in 1..Len(es) :
                 WithinHalfCent(es[i].tax_amount,
                                IF bs[i].hasMax
                                THEN Min2(SalaryValue - bs[i].min,
                                          bs[i].max - bs[i].min)
                                ELSE SalaryValue - bs[i].min,
                                bs[i].rate)
            /\ tax_result.total_tax = total_tax(es)
            /\ tax_result.effective_rate
                 \in RatioNearest(total_tax(es), SalaryValue)
    /\ (/\ tax_result.raised # "pending"
        /\ validate_salary(salary).ok /\ SalaryValue = 7500000
        /\ brackets = [none |-> FALSE, list |-> TwoBrackets]) =>
         tax_result =
           [raised |-> None, message |-> None,
            total_tax |-> 1262500, effective_rate |-> 1683,
            taxes_per_bracket |->
              <<[bracket |-> <<"$", 0, " to $", 5000000>>,
                 tax_amount |-> 750000, rate |-> 1500],
                [bracket |-> <<"Over $", 5000000>>,
                 tax_amount |-> 512500, rate |-> 2050]>>,
            nan |-> FALSE]
    /\ (/\ tax_result.raised # "pending"
        /\ validate_salary(salary).ok /\ SalaryValue = 50000000
        /\ brackets = [none |-> FALSE, list |-> Brackets2023]) =>
         /\ tax_result.raised = None
         /\ tax_result.total_tax = 14180592
         /\ tax_result.effective_rate = 2836
         /\ Len(tax_result.taxes_per_bracket) = 5

\* C18 witness: the call with salary 75000 and the two brackets returned a
\* total of 12625.00.
TaxOfSeventyFiveThousand ==
    /\ salary = [kind |-> "num", cents |-> 7500000, text |-> << >>]
    /\ brackets.list = TwoBrackets
    /\ tax_result.raised = None
    /\ tax_result.total_tax = 1262500
    /\ Len(tax_result.taxes_per_bracket) = 2

\* C19: the breakdown has exactly one entry for each bracket with
\* min < salary, none for a bracket with salary <= min, and the entries are
\* in the order of the input list.
BreakdownFollowsInput ==
    (tax_result.raised = None) =>
        LET bs == BracketsBelow(SalaryValue)
            es == tax_result.taxes_per_bracket
        IN /\ Len(es) = Len(bs)
           /\ \A i \in 1..Len(es) :
                /\ es[i].bracket = bracket_label(bs[i])
                /\ es[i].rate = bs[i].rate
           /\ \A i \in 1..Len(brackets.list) :
                brackets.list[i].min >= SalaryValue =>
                  \A j \in 1..Len(es) :
                    es[j].bracket # bracket_label(brackets.list[i])

\* C19 witness: the list starts with its highest bracket and the salary
\* 120000 reaches all three; the breakdown starts with that bracket.
BreakdownOfUnsortedList ==
    /\ brackets.list = ThreeBracketsUnsorted
    /\ tax_result.raised = None
    /\ SalaryValue = 12000000
    /\ Len(tax_result.taxes_per_bracket) = 3
    /\ tax_result.taxes_per_bracket[1].bracket = <<"Over $", 10000000>>
    /\ tax_result.taxes_per_bracket[2].bracket = <<"$", 0, " to $", 5000000>>

\* C20: with a non-empty bracket list, a salary that does not parse or
\* parses to a negative number makes calculate_taxes raise ValidationError
\* and return no tax result.
InvalidSalaryRejected ==
    (/\ tax_result.raised # "pending"
     /\ ~brackets.none /\ brackets.list # << >>
     /\ (~validate_salary(salary).ok \/ SalaryValue < 0)) =>
        tax_result.raised = "ValidationError"

\* C21: with an empty or absent bracket list calculate_taxes raises the
\* ValidationError of the bracket check, "Tax brackets cannot be empty",
\* whatever the salary is (valid, zero, negative or unparsable): the salary
\* has not been parsed and no tax has been computed.
EmptyBracketsRejected ==
    (tax_result.raised # "pending" /\ (brackets.none \/ brackets.list = << >>)) =>
        tax_result = TaxRaised("ValidationError", "Tax brackets cannot be empty")

\* C21 witness: the brackets are absent and the salary does not parse; the
\* call raised the error of the bracket check.
AbsentBracketsBadSalary ==
    /\ brackets.none
    /\ ~validate_salary(salary).ok
    /\ tax_result.raised = "ValidationError"
    /\ tax_result.message = "Tax brackets cannot be empty"


----------------------------------------------------------------------------
(* app/core/worker.py and app/api/calculate_tax_routes.py: the callers of
   the fetcher and of the tax engine *)

\* app.constants.DEFAULT_YEAR: tests/unit/test_worker.py expects the
\* get_base_response() of an item with an invalid salary to equal
\* get_base_response(2023).
DEFAULT_YEAR == 2023

\* The longest batch.
MaxItems == 2

\* config.get_api_url()
ApiUrl == [scheme |-> "http", netloc |-> "api", path |-> ""]

\* What the upstream answers to the GETs of one fetch, and what
\* requests.post of the webhook can end in: a response, a transport failure
\* or an exception that is no RequestException.
CallerResponses == {"B1", "EMPTY", "500", "429"}

\* The answers to the GETs of one call of fetch_tax_brackets: within one
\* call the upstream answers every GET alike (SpecFetch has the upstream
\* that changes its answer between the attempts).
CallerAnswers == {[i \in 1..DefaultMaxRetries |-> r] : r \in CallerResponses}
PostOutcomes == {"posted", "RequestException", "TypeError"}

\* The bracket list of a response body.
tax_brackets_of(v) ==
    IF v = "B1" THEN [none |-> FALSE, list |-> TwoBrackets]
    ELSE IF v = "B2" THEN [none |-> FALSE, list |-> Brackets2023]
    ELSE [none |-> FALSE, list |-> << >>]

\* One call of tax_calculator.fetch_tax_brackets(year, api_url) from its
\* first attempt to its return or its exception, on the module's cache c at
\* time t; resps are the answers of the upstream to the GETs that are made.
RECURSIVE fetch_attempts(_, _, _, _, _, _, _)
fetch_attempts(c, ws, year, api_url, resps, t, gets) ==
    LET vu == validate_api_url(api_url)
        vy == validate_year(year)
        key == get_cache_key(vy.value)
        g == get(c, key, t, ONE_MONTH_IN_SECONDS)
        resp == resps[gets + 1]
        p == put(g.cache, key, resp, t, DefaultCapacity)
        hit == vu.ok /\ vy.ok /\ Truthy(g.value)
        asks == vu.ok /\ vy.ok /\ ~Truthy(g.value)
        r == IF ~vu.ok THEN vu.error
             ELSE IF ~vy.ok THEN vy.error
             ELSE IF hit THEN g.value
             ELSE IF classify(resp) # "OK" THEN classify(resp)
             ELSE IF p.raised # None THEN p.raised
             ELSE resp
        c2 == IF ~vu.ok \/ ~vy.ok THEN c
              ELSE IF hit \/ classify(resp) # "OK" THEN g.cache
              ELSE p.cache
        n2 == IF asks THEN gets + 1 ELSE gets
        ws2 == after_call(ws, r, DefaultMaxRetries, DefaultDelay,
                          "is_rate_limit")
    IN IF ws2.pc = "sleep"
       THEN fetch_attempts(c2, after_sleep(ws2), year, api_url, resps,
                           t + ws2.sleeps[Len(ws2.sleeps)].delay, n2)
       ELSE [cache |-> c2, now |-> t, gets |-> n2, hit |-> hit,
             raised |-> IF ws2.pc = "raised" THEN ws2.result ELSE None,
             value |-> IF ws2.pc = "returned" THEN ws2.result ELSE None]

fetch_tax_brackets(c, year, api_url, resps, t) ==
    fetch_attempts(c, WrapperStart, year, api_url, resps, t, 0)

\* worker.get_base_response. In a result, nan tells that the floats salary
\* and effective_rate are NaN.
get_base_response(year) ==
    [salary |-> 0, total_tax |-> 0, effective_rate |-> 0,
     taxes_per_bracket |-> << >>, year |-> year, nan |-> FALSE]

\* The float a caller holds after validate_salary, as an argument.
as_float(v) ==
    IF v.nan THEN [kind |-> "nan", cents |-> 0, text |-> << >>]
    ELSE [kind |-> "num", cents |-> v.value, text |-> << >>]

\* The items of a batch: a value that is no dict, a dict without salary, and
\* dicts with a salary and with or without a year.
NoYear == [kind |-> "none", n |-> 0]
Item(dict, has_salary, sal, has_year, yr) ==
    [dict |-> dict, has_salary |-> has_salary, salary |-> sal,
     has_year |-> has_year, year |-> yr]

ItemSalary(kind, cents, text) == [kind |-> kind, cents |-> cents, text |-> text]

Items ==
    {Item(FALSE, FALSE, ItemSalary("none", 0, << >>), FALSE, NoYear),
     Item(TRUE, FALSE, ItemSalary("none", 0, << >>), TRUE,
          [kind |-> "int", n |-> 2019]),
     Item(TRUE, TRUE, ItemSalary("num", 7500000, << >>), FALSE, NoYear),
     Item(TRUE, TRUE, ItemSalary("num", 7500000, << >>), TRUE,
          [kind |-> "int", n |-> 2019])}
    \cup {Item(TRUE, TRUE, s, TRUE, [kind |-> "int", n |-> 2019]) :
            s \in {ItemSalary("num", 0, << >>), ItemSalary("num", 0 - 500, << >>),
                   ItemSalary("str", 0, <<"a", "b", "c">>),
                   ItemSalary("nan", 0, << >>)}}

Batches == UNION {[1..n -> Items] : n \in 0..MaxItems}

\* What processing one item does: the results it appends, the cache and the
\* clock after it, its calls of the fetcher and the engine with the salary
\* the caller holds, and whether one of them raised.
ItemOutcome(rs, c, t, calls, failed) ==
    [append |-> rs, cache |-> c, now |-> t, calls |-> calls, failed |-> failed]

\* worker.py line 52: salary <= 0, which is false for NaN.
worker_skips(v) == ~v.nan /\ v.value <= 0

\* A worker that appends nothing for an item that is no dict with a salary.
process_item_drop_malformed(calc, c, t, resps) ==
    IF ~calc.dict \/ ~calc.has_salary
    THEN {ItemOutcome(<< >>, c, t, {}, FALSE)}
    ELSE {ItemOutcome(<<get_base_response(DEFAULT_YEAR)>>, c, t, {}, FALSE)}

\* One pass of the loop body of process_tax_calculations.
process_item(calc, c, t, resps) ==
    IF ~calc.dict \/ ~calc.has_salary
    THEN {ItemOutcome(<<get_base_response(DEFAULT_YEAR)>>, c, t, {}, FALSE)}
    ELSE
    LET v == validate_salary(calc.salary)
        vy == validate_year(calc.year)
        year == IF calc.has_year /\ vy.ok THEN vy.value ELSE DEFAULT_YEAR
        f == fetch_tax_brackets(c, [kind |-> "int", n |-> year], ApiUrl,
                                resps, t)
        fcall == [fn |-> "fetch_tax_brackets", salary |-> v]
        ccall == [fn |-> "calculate_taxes", salary |-> v]
    IN
    IF ~v.ok
    THEN {ItemOutcome(<<get_base_response(DEFAULT_YEAR)>>, c, t, {}, FALSE)}
    ELSE IF worker_skips(v)
    THEN {ItemOutcome(<<get_base_response(year)>>, c, t, {}, FALSE)}
    ELSE IF f.raised # None
    THEN {ItemOutcome(<<get_base_response(DEFAULT_YEAR)>>, f.cache, f.now,
                      {fcall}, TRUE)}
    ELSE {IF tr.raised # None
          THEN ItemOutcome(<<get_base_response(DEFAULT_YEAR)>>, f.cache, f.now,
                           {fcall, ccall}, TRUE)
          ELSE ItemOutcome(<<[salary |-> v.value, year |-> year,
                              total_tax |-> tr.total_tax,
                              effective_rate |-> tr.effective_rate,
                              taxes_per_bracket |-> tr.taxes_per_bracket,
                              nan |-> tr.nan]>>,
                           f.cache, f.now, {fcall, ccall}, FALSE) :
            tr \in calculate_taxes(as_float(v), tax_brackets_of(f.value))}

\* The query strings of GET /calculate-tax: request.args.get('salary', 0) is
\* the number 0 or a string, request.args.get('year', DEFAULT_YEAR) is the
\* default or a string.
RouteSalaries ==
    {ItemSalary("num", 0, << >>),
     ItemSalary("str", 0, << >>),
     ItemSalary("str", 0, <<"0">>),
     ItemSalary("str", 0, <<"-", "5">>),
     ItemSalary("str", 0, <<"7", "5", "0", "0", "0">>),
     ItemSalary("str", 0, <<"a", "b", "c">>)}

RouteYears ==
    {[kind |-> "int", n |-> DEFAULT_YEAR], [kind |-> "str", n |-> 2019],
     [kind |-> "badstr", n |-> 0]}

\* What the route answers: the exception it raises or the body it returns
\* with 200 and the X-Cache-Hit header, and its calls.
RouteOutcome(raised, message, body, hit, c, t, calls) ==
    [raised |-> raised, message |-> message, body |-> body, cache_hit |-> hit,
     cache |-> c, now |-> t, calls |-> calls]

\* calculate_tax_routes.py line 41: salary < 0
route_rejects(v) == ~v.nan /\ v.value < 0

\* calculate_tax_routes.py line 43: salary == 0
route_returns_zero(v) == ~v.nan /\ v.value = 0

\* The body of calculate_tax_route, for a request that rate_limit admits.
calculate_tax_route(sal, yr, c, t, resps) ==
    LET v == validate_salary(sal)
        vy == validate_year(yr)
        response == [get_base_response(vy.value) EXCEPT !.salary = v.value]
        f == fetch_tax_brackets(c, [kind |-> "int", n |-> vy.value], ApiUrl,
                                resps, t)
        fcall == [fn |-> "fetch_tax_brackets", salary |-> v]
        ccall == [fn |-> "calculate_taxes", salary |-> v]
    IN
    IF ~v.ok
    THEN {RouteOutcome("ValidationError", "Invalid salary format",
                       get_base_response(0), FALSE, c, t, {})}
    ELSE IF ~vy.ok
    THEN {RouteOutcome("ValidationError", "Invalid year",
                       get_base_response(0), FALSE, c, t, {})}
    ELSE IF route_rejects(v)
    THEN {RouteOutcome("ValidationError", "Salary cannot be negative",
                       get_base_response(0), FALSE, c, t, {})}
    ELSE IF route_returns_zero(v)
    THEN {RouteOutcome(None, None, response, FALSE, c, t, {})}
    ELSE IF f.raised # None
    THEN {RouteOutcome(f.raised, None, get_base_response(0), FALSE,
                       f.cache, f.now, {fcall})}
    ELSE {IF tr.raised # None
          THEN RouteOutcome(tr.raised, tr.message, get_base_response(0), FALSE,
                            f.cache, f.now, {fcall, ccall})
          ELSE RouteOutcome(None, None,
                            [response EXCEPT
                               !.total_tax = tr.total_tax,
                               !.effective_rate = tr.effective_rate,
                               !.taxes_per_bracket = tr.taxes_per_bracket],
                            f.hit, f.cache, f.now, {fcall, ccall}) :
            tr \in calculate_taxes(as_float(v), tax_brackets_of(f.value))}

\* A worker that lets the exception of the delivery out.
caught_by_worker_never(e) == FALSE

\* worker.py line 72: except requests.RequestException
caught_by_worker(e) == e = "RequestException"

\* The state of a request before the route ran.
NoRequest ==
    [at |-> "idle", salary |-> ItemSalary("none", 0, << >>), year |-> NoYear,
     out |-> RouteOutcome(None, None, get_base_response(0), FALSE, << >>, 0, {})]

\* A process of the application: the web process serves GET /calculate-tax,
\* the worker process runs process_tax_calculations on one batch. Each has
\* its own tax_brackets_cache, empty at the start, and the webhook's
\* @retry_on_failure() has the default budget and no abort predicate.
InitCallers ==
    /\ cache = << >>
    /\ capacity = DefaultCapacity
    /\ ttl_in_seconds = ONE_MONTH_IN_SECONDS
    /\ now = 0
    /\ ret = Ret("init", None, None, None, None)
    /\ storedAt = << >>
    /\ useOrder = << >>
    /\ max_retries = DefaultMaxRetries
    /\ delay_in_seconds = DefaultDelay
    /\ should_abort_retry = None
    /\ plan = << >>
    /\ w = WrapperStart
    /\ req = << >>
    /\ fetches = 0
    /\ th = << >>
    /\ ops = 0
    /\ salary = None
    /\ brackets = None
    /\ tax_result = None
    /\ \/ /\ calculations \in Batches
          /\ job = [process |-> "worker", pc |-> "items", log |-> << >>,
                    sends |-> 0, payload |-> << >>, posts |-> << >>,
                    value |-> << >>, error |-> None]
       \/ /\ calculations = << >>
          /\ job = [process |-> "web", pc |-> "serving", log |-> << >>,
                    sends |-> 0, payload |-> << >>, posts |-> << >>,
                    value |-> << >>, error |-> None]
    /\ results = << >>
    /\ engine = {}
    /\ http = NoRequest
    /\ admin_api_key = None
    /\ NoLimiter

CallersFrame ==
    UNCHANGED <<capacity, ttl_in_seconds, ret, storedAt, useOrder, max_retries,
                delay_in_seconds, should_abort_retry, plan, req, th, ops,
                taxVars, admin_api_key, limitVars, calculations>>

\* The loop of process_tax_calculations handles the next item.
ProcessItem ==
    /\ job.pc = "items"
    /\ Len(results) < Len(calculations)
    /\ \E resps \in CallerAnswers :
         \E o \in process_item(calculations[Len(results) + 1], cache, now, resps) :
            /\ results' = results \o o.append
            /\ cache' = o.cache
            /\ now' = o.now
            /\ engine' = engine \cup o.calls
            /\ job' = [job EXCEPT !.log = Append(@, [calls |-> o.calls,
                                                     failed |-> o.failed])]
    /\ UNCHANGED <<w, fetches, http>>
    /\ CallersFrame

\* After the loop: send_results_to_webhook(webhook_url, results) is called.
SendResults ==
    /\ job.pc = "items"
    /\ Len(job.log) = Len(calculations)
    /\ job' = [job EXCEPT !.pc = "post", !.sends = @ + 1, !.payload = results]
    /\ w' = WrapperStart
    /\ UNCHANGED <<cache, now, results, engine, fetches, http>>
    /\ CallersFrame

\* One attempt of send_results_to_webhook: requests.post(webhook_url,
\* json={"results": results}) returns or raises.
Post(outcome) ==
    /\ job.pc = "post"
    /\ w.pc = "call"
    /\ w' = after_call(w, outcome, max_retries, delay_in_seconds,
                       should_abort_retry)
    /\ job' = [job EXCEPT !.posts = Append(@, job.payload)]
    /\ UNCHANGED <<cache, now, results, engine, fetches, http>>
    /\ CallersFrame

\* time.sleep of the webhook's wrapper returns.
PostSleep ==
    /\ job.pc = "post"
    /\ w.pc = "sleep"
    /\ w' = after_sleep(w)
    /\ now' = now + w.sleeps[Len(w.sleeps)].delay
    /\ UNCHANGED <<cache, results, job, engine, fetches, http>>
    /\ CallersFrame

\* send_results_to_webhook returned or raised: process_tax_calculations logs
\* a RequestException and returns results; another exception leaves it.
Finish ==
    /\ job.pc = "post"
    /\ w.pc \in {"returned", "raised"}
    /\ job' = IF w.pc = "returned" \/ caught_by_worker(w.result)
              THEN [job EXCEPT !.pc = "returned", !.value = results]
              ELSE [job EXCEPT !.pc = "raised", !.error = w.result]
    /\ UNCHANGED <<cache, now, results, w, engine, fetches, http>>
    /\ CallersFrame

\* GET /calculate-tax with the given query string.
Route(sal, yr) ==
    /\ job.pc = "serving"
    /\ fetches < MaxFetches
    /\ fetches' = fetches + 1
    /\ \E resps \in CallerAnswers :
         \E o \in calculate_tax_route(sal, yr, cache, now, resps) :
            /\ http' = [at |-> "done", salary |-> sal, year |-> yr, out |-> o]
            /\ cache' = o.cache
            /\ now' = o.now
            /\ engine' = engine \cup o.calls
    /\ UNCHANGED <<results, job, w>>
    /\ CallersFrame

NextCallers ==
    \/ ProcessItem
    \/ SendResults
    \/ \E outcome \in PostOutcomes : Post(outcome)
    \/ PostSleep
    \/ Finish
    \/ \E sal \in RouteSalaries, yr \in RouteYears : Route(sal, yr)

SpecCallers == InitCallers /\ [][NextCallers]_vars

----------------------------------------------------------------------------
(* Claims about the callers *)

\* The year an item's result carries: the item's year when it is a supported
\* year, DEFAULT_YEAR otherwise (worker.py lines 47-50).
YearOfItem(calc) ==
    IF calc.has_year /\ validate_year(calc.year).ok
    THEN validate_year(calc.year).value
    ELSE DEFAULT_YEAR

\* C22: the callers call the fetcher and the tax engine only with a salary
\* > 0. The GET route raises a validation error for a negative salary and
\* returns the zero-valued response for salary 0; the worker returns the base
\* response with the item's year for a salary <= 0; neither calls the fetcher
\* or the engine then.
CallersPassPositiveSalary ==
    /\ \A e \in engine : ~e.salary.nan /\ e.salary.value > 0
    /\ \A i \in 1..Len(job.log) :
         LET calc == calculations[i]
             v == validate_salary(calc.salary)
         IN (calc.dict /\ calc.has_salary /\ v.ok /\ ~v.nan /\ v.value <= 0) =>
              /\ job.log[i].calls = {}
              /\ results[i] = get_base_response(YearOfItem(calc))
    /\ (/\ http.at = "done"
        /\ validate_salary(http.salary).ok
        /\ validate_year(http.year).ok) =>
         LET v == validate_salary(http.salary) IN
         /\ v.value < 0 => /\ http.out.raised = "ValidationError"
                           /\ http.out.calls = {}
         /\ v.value = 0 =>
              /\ http.out.raised = None
              /\ http.out.calls = {}
              /\ http.out.body = get_base_response(validate_year(http.year).value)

\* The results an item can have when it is processed alone, on an empty
\* cache.
ResultsOf(calc) ==
    UNION {{o.append : o \in process_item(calc, << >>, 0, resps)} :
             resps \in CallerAnswers}

\* C23: process_tax_calculations yields one result per item, in the order of
\* the input: after every pass of the loop there are as many results as
\* items handled, a pass appends one result and leaves the earlier ones as
\* they are, and result i is one that item i has when it is processed alone,
\* whatever happened to the other items. send_results_to_webhook is called
\* once, after the last item, with the complete list, and every POST carries
\* that list.
OneResultPerItem ==
    /\ [](/\ Len(results) = Len(job.log)
          /\ Len(results) <= Len(calculations)
          /\ \A i \in 1..Len(results) :
               <<results[i]>> \in ResultsOf(calculations[i])
          /\ job.sends = (IF job.pc \in {"post", "returned", "raised"}
                          THEN 1 ELSE 0)
          /\ job.sends = 1 =>
               /\ Len(results) = Len(calculations)
               /\ job.payload = results
               /\ \A k \in 1..Len(job.posts) : job.posts[k] = results
          /\ job.pc = "returned" => job.value = results)
    /\ [][\/ results' = results
          \/ /\ job.pc = "items"
             /\ Len(results') = Len(results) + 1
             /\ SubSeq(results', 1, Len(results)) = results]_vars

\* C23 witness: a batch of two was processed and delivered: the first item
\* failed in the fetch, the second has its taxes.
FailedThenComputedDelivered ==
    /\ job.pc = "returned"
    /\ Len(calculations) = 2
    /\ job.log[1].failed
    /\ results[1] = get_base_response(DEFAULT_YEAR)
    /\ results[2].total_tax = 1262500
    /\ job.sends = 1
    /\ Len(job.posts) = 1

\* C24: for an item with a supported year y whose salary fails validation,
\* or for which the fetch or the calculation raises, the result is the base
\* response with the year y.
FailedItemKeepsYear ==
    \A i \in 1..Len(job.log) :
       LET calc == calculations[i] IN
       (/\ calc.dict /\ calc.has_salary /\ calc.has_year
        /\ validate_year(calc.year).ok
        /\ (~validate_salary(calc.salary).ok \/ job.log[i].failed)) =>
          results[i] = get_base_response(validate_year(calc.year).value)

\* C25: when the delivery to the webhook fails with a transport error on
\* every attempt of its wrapper, process_tax_calculations raises nothing and
\* returns the full result list: from the call of send_results_to_webhook on
\* the list does not change, a RequestException of the delivery ends in the
\* return of results, and the function raises only what is no
\* RequestException.
WebhookFailureIsSwallowed ==
    /\ [](/\ job.pc \in {"post", "returned", "raised"} =>
               /\ results = job.payload
               /\ Len(results) = Len(calculations)
          /\ (job.pc \in {"returned", "raised"} /\ w.pc = "raised"
                /\ w.result = "RequestException") =>
               /\ job.pc = "returned"
               /\ job.value = results
               /\ job.error = None
               /\ Len(job.posts) = DefaultMaxRetries
          /\ job.pc = "raised" => job.error = "TypeError")
    /\ [][job.pc \in {"post", "returned", "raised"} => results' = results]_vars

\* C25 witness: three POSTs failed with a transport error and the function
\* returned its two results.
ReturnedAfterFailedDelivery ==
    /\ job.pc = "returned"
    /\ w.pc = "raised"
    /\ w.result = "RequestException"
    /\ Len(job.posts) = 3
    /\ Len(w.sleeps) = 2
    /\ Len(job.value) = 2
    /\ job.value = results

----------------------------------------------------------------------------
(* app/decorators/rate_limit.py *)

DEFAULT_RATE_LIMIT_REQUESTS == 5
DEFAULT_RATE_LIMIT_WINDOW_IN_SECONDS == 5

\* The largest rate_limit_requests and rate_limit_window_in_seconds, the
\* last second of the clock and the number of calls of a behaviour.
MaxLimit == 2
MaxWindow == 2
MaxClock == 3
MaxCalls == 4

\* The requests: what Flask gives as remote_addr, and the headers
\* X-Forwarded-For and X-API-Key and the hash of all headers.
Request(addr, fwd, key, hdrs) ==
    [remote_addr |-> addr, forwarded |-> fwd, api_key |-> key, headers |-> hdrs]

Requests ==
    {Request("10.0.0.1", None, None, "h1"),
     Request(None, "10.0.0.2", "k1", "h2"),
     Request(None, None, "k1", "h3"),
     Request(None, None, None, "h4")}

\* not x, for a string or None
Falsy(x) == x = None \/ x = ""

\* rate_limit.py lines 31-34: the identifier of the client
unique_id(rq) ==
    IF ~Falsy(rq.remote_addr) THEN rq.remote_addr
    ELSE IF ~Falsy(rq.forwarded) THEN rq.forwarded
    ELSE IF ~Falsy(rq.api_key) THEN rq.api_key
    ELSE "unknown_" \o rq.headers

Clients == {unique_id(rq) : rq \in Requests}

\* The timestamps of h that lie in the window before t (lines 38-41).
in_window(h, t, W) == SelectSeq(h, LAMBDA x : t - x <= W)

\* What one call of the wrapper does, with the histories hs: the histories
\* after it, the exception it raises and whether func ran.
Limited(hs, raised, ran) == [histories |-> hs, raised |-> raised, ran |-> ran]

\* A wrapper that drops a timestamp as soon as it is W seconds old.
wrapper_strict_window(hs, rq, t, R, W, tst) ==
    LET id == unique_id(rq)
        kept == SelectSeq(hs[id], LAMBDA x : t - x < W)
        pruned == [hs EXCEPT ![id] = kept]
    IN IF tst THEN Limited(hs, None, TRUE)
       ELSE IF Len(kept) >= R THEN Limited(pruned, "RateLimitError", FALSE)
       ELSE Limited([pruned EXCEPT ![id] = Append(@, t)], None, TRUE)

\* A wrapper that never removes a timestamp.
wrapper_no_pruning(hs, rq, t, R, W, tst) ==
    LET id == unique_id(rq)
        kept == in_window(hs[id], t, W)
    IN IF tst THEN Limited(hs, None, TRUE)
       ELSE IF Len(kept) >= R THEN Limited(hs, "RateLimitError", FALSE)
       ELSE Limited([hs EXCEPT ![id] = Append(@, t)], None, TRUE)

\* A wrapper that keeps one history for all clients.
wrapper_one_history(hs, rq, t, R, W, tst) ==
    LET id == "10.0.0.1"
        kept == in_window(hs[id], t, W)
        pruned == [hs EXCEPT ![id] = kept]
    IN IF tst THEN Limited(hs, None, TRUE)
       ELSE IF Len(kept) >= R THEN Limited(pruned, "RateLimitError", FALSE)
       ELSE Limited([pruned EXCEPT ![id] = Append(@, t)], None, TRUE)

\* A wrapper that records the timestamp of a call before it rejects it.
wrapper_records_rejected(hs, rq, t, R, W, tst) ==
    LET id == unique_id(rq)
        kept == in_window(hs[id], t, W)
        pruned == [hs EXCEPT ![id] = kept]
    IN IF tst THEN Limited(hs, None, TRUE)
       ELSE IF Len(kept) >= R
       THEN Limited([pruned EXCEPT ![id] = Append(@, t)], "RateLimitError", FALSE)
       ELSE Limited([pruned EXCEPT ![id] = Append(@, t)], None, TRUE)

\* rate_limit(...).decorator.wrapper, lines 27-49
wrapper(hs, rq, t, R, W, tst) ==
    LET id == unique_id(rq)
        kept == in_window(hs[id], t, W)
        pruned == [hs EXCEPT ![id] = kept]
    IN IF tst THEN Limited(hs, None, TRUE)
       ELSE IF Len(kept) >= R THEN Limited(pruned, "RateLimitError", FALSE)
       ELSE Limited([pruned EXCEPT ![id] = Append(@, t)], None, TRUE)

\* The call before the first call.
NoCall ==
    [id |-> None, now |-> 0, raised |-> None, ran |-> FALSE,
     before |-> << >>, stored |-> [c \in Clients |-> << >>], n |-> 0]

\* One function decorated with rate_limit(R, W); request_history is the
\* module's dictionary, a defaultdict that holds the empty list for a client
\* that never called.
InitLimit ==
    /\ cache = << >>
    /\ capacity = 0
    /\ ttl_in_seconds = 0
    /\ now = 0
    /\ ret = Ret("init", None, None, None, None)
    /\ storedAt = << >>
    /\ useOrder = << >>
    /\ max_retries = 0
    /\ delay_in_seconds = 0
    /\ should_abort_retry = None
    /\ plan = << >>
    /\ w = None
    /\ req = << >>
    /\ fetches = 0
    /\ th = << >>
    /\ ops = 0
    /\ salary = None
    /\ brackets = None
    /\ tax_result = None
    /\ NoCallers /\ NoRoutes
    /\ request_history = [c \in Clients |-> << >>]
    /\ rate_limit_requests \in 1..MaxLimit
    /\ rate_limit_window_in_seconds \in 1..MaxWindow
    /\ testing \in BOOLEAN
    /\ admitted = [c \in Clients |-> << >>]
    /\ call = NoCall

LimitFrame ==
    UNCHANGED <<cache, capacity, ttl_in_seconds, ret, storedAt, useOrder,
                retryVars, fetchVars, th, taxVars, callerVars, routeVars,
                rate_limit_requests, rate_limit_window_in_seconds, testing>>

\* A request reaches the decorated function at datetime.now() = now.
LimitedCall(rq) ==
    LET o == wrapper(request_history, rq, now, rate_limit_requests,
                     rate_limit_window_in_seconds, testing)
        id == unique_id(rq)
    IN
    /\ ops < MaxCalls
    /\ ops' = ops + 1
    /\ request_history' = o.histories
    /\ admitted' = IF o.raised = None /\ ~testing
                   THEN [admitted EXCEPT ![id] = Append(@, now)]
                   ELSE admitted
    /\ call' = [id |-> id, now |-> now, raised |-> o.raised, ran |-> o.ran,
                before |-> admitted[id], stored |-> request_history,
                n |-> ops + 1]
    /\ now' = now
    /\ LimitFrame

\* A second passes.
TickClock ==
    /\ now < MaxClock
    /\ now' = now + 1
    /\ UNCHANGED <<ops, limitVars>>
    /\ LimitFrame

NextLimit ==
    \/ \E rq \in Requests : LimitedCall(rq)
    \/ TickClock

SpecLimit == InitLimit /\ [][NextLimit]_vars

----------------------------------------------------------------------------
(* Claims about the rate limiter *)

\* The admitted calls of the calling client before the last call that lie
\* in its window.
AdmittedInWindow ==
    SelectSeq(call.before,
              LAMBDA x : call.now - x <= rate_limit_window_in_seconds)

\* C26 as stated, its last sentence: a call exactly W seconds after the R-th
\* admitted call of the client is rejected.
RejectedAtWindowAfterRth ==
    (/\ call.n > 0 /\ ~testing
     /\ Len(call.before) >= rate_limit_requests
     /\ call.now = call.before[rate_limit_requests]
                     + rate_limit_window_in_seconds) =>
       call.raised = "RateLimitError"

\* C26: outside testing mode a call at time now is admitted if and only if
\* fewer than R earlier admitted calls of its client have a timestamp t with
\* now - t <= W; otherwise it raises RateLimitError and the wrapped function
\* does not run. A call exactly W seconds after R calls that were admitted
\* at one instant is rejected, and a call more than W seconds after the
\* latest admitted call of the client is admitted.
AdmittedIffRoomInWindow ==
    (call.n > 0 /\ ~testing) =>
      /\ (call.raised = None) <=> (Len(AdmittedInWindow) < rate_limit_requests)
      /\ call.raised = None => call.ran
      /\ call.raised # None => call.raised = "RateLimitError" /\ ~call.ran
      /\ Len(SelectSeq(call.before,
                       LAMBDA x : call.now - x = rate_limit_window_in_seconds))
           >= rate_limit_requests => call.raised = "RateLimitError"
      /\ (/\ call.before # << >>
          /\ call.now - call.before[Len(call.before)]
               > rate_limit_window_in_seconds) => call.raised = None

\* C26 witness: with R = 2 and W = 2 two calls were admitted at second 0 and
\* the call at second 2 was rejected.
RejectedAtWindowEdge ==
    /\ ~testing
    /\ rate_limit_requests = 2
    /\ rate_limit_window_in_seconds = 2
    /\ call.before = <<0, 0>>
    /\ call.now = 2
    /\ call.raised = "RateLimitError"
    /\ ~call.ran

\* C27: the stored history of every client holds at most R timestamps, and
\* after a call every timestamp stored for the calling client lies within W
\* seconds of that call: the call removed the older ones.
HistoryStaysInWindow ==
    /\ \A c \in Clients : Len(request_history[c]) <= rate_limit_requests
    /\ (call.n > 0 /\ ~testing) =>
         /\ \A i \in 1..Len(request_history[call.id]) :
              /\ call.now - request_history[call.id][i]
                   <= rate_limit_window_in_seconds
              /\ request_history[call.id][i] <= call.now
         /\ \A i \in 1..Len(call.stored[call.id]) :
              call.now - call.stored[call.id][i] > rate_limit_window_in_seconds
                => \A j \in 1..Len(request_history[call.id]) :
                      request_history[call.id][j] # call.stored[call.id][i]

\* C27 witness: the history of a client was full with two timestamps, both
\* older than the window at its next call, and holds that call alone now.
OldTimestampsRemoved ==
    /\ call.n > 0
    /\ ~testing
    /\ rate_limit_requests = 2
    /\ Len(call.stored[call.id]) = 2
    /\ call.now - call.stored[call.id][2] > rate_limit_window_in_seconds
    /\ request_history[call.id] = <<call.now>>

\* C28: the limits of the clients are separate. A call changes the history
\* of its own client only, and whether it is admitted is a function of the
\* earlier admitted calls of that client, of the time and of R and W: the
\* calls of other clients have no part in it.
ClientsAreSeparate ==
    [][ops' = ops + 1 =>
         /\ \A c \in Clients \ {call'.id} :
               /\ request_history'[c] = request_history[c]
               /\ admitted'[c] = admitted[c]
         /\ ~testing =>
              ((call'.raised = None) <=>
                 (Len(SelectSeq(admitted[call'.id],
                                LAMBDA x : now - x <= rate_limit_window_in_seconds))
                    < rate_limit_requests))
         /\ testing => call'.raised = None]_vars

\* C28 witness: with R = 1 one client used up its limit, and another client
\* was admitted in the same second.
OtherClientAdmitted ==
    /\ call.n >= 3
    /\ ~testing
    /\ rate_limit_requests = 1
    /\ call.id = "10.0.0.2"
    /\ call.raised = None
    /\ call.before = << >>
    /\ admitted["10.0.0.1"] = <<call.now>>

----------------------------------------------------------------------------
(* app/decorators/auth.py and app/api/cache_routes.py *)

\* The X-API-Key headers of the requests to the cache routes: missing,
\* empty, another key, the admin key.
AdminKey == "secret"
KeyHeaders == {None, "", "wrong", AdminKey}

\* The requests to the cache routes, of one address.
AdminRequests == {Request("10.0.0.1", None, k, "h1") : k \in KeyHeaders}

\* ADMIN_API_KEY in the environment: set, or not set.
AdminKeySettings == {AdminKey, None}

\* The years of DELETE /cache/tax-year/<int:year>
RouteYearsToClear == {2019, 2023, 2024}

\* The cache before the requests: brackets of no, one or two years.
StoredCaches ==
    {<< >>,
     <<Entry(get_cache_key(2019), "B1", 0)>>,
     <<Entry(get_cache_key(2019), "B1", 0), Entry(get_cache_key(2023), "B2", 0)>>}

\* What the client's earlier requests to the rate-limited routes left in
\* request_history, which all decorated routes share.
EarlierRequests ==
    {<< >>, <<0, 0, 0, 0>>, <<0, 0, 0, 0, 0>>}

\* A require_api_key that only asks for some key.
require_api_key_any_key(key, expected) ==
    IF Falsy(expected) THEN "MissingEnvironmentVariable"
    ELSE IF Falsy(key) THEN "UnauthorizedError"
    ELSE None

\* require_api_key, lines 12-16: the exception it raises, or None.
\* config.get_admin_api_key() raises when the variable is not set.
require_api_key(key, expected) ==
    IF Falsy(expected) THEN "MissingEnvironmentVariable"
    ELSE IF Falsy(key) \/ key # expected THEN "UnauthorizedError"
    ELSE None

\* The status of the response the error handlers of the application make of
\* an exception.
status_code(e) ==
    IF e = None THEN 200
    ELSE IF e = "UnauthorizedError" THEN 401
    ELSE IF e = "RateLimitError" THEN 429
    ELSE 500

\* The answer to a request to a cache route.
Answer(route, rq, e, c) ==
    [at |-> "done", route |-> route, key |-> rq.api_key, raised |-> e,
     status |-> status_code(e), before |-> c]

InitAdmin ==
    /\ cache \in StoredCaches
    /\ capacity = DefaultCapacity
    /\ ttl_in_seconds = ONE_MONTH_IN_SECONDS
    /\ now = 0
    /\ ret = Ret("init", None, None, None, None)
    /\ storedAt = << >>
    /\ useOrder = << >>
    /\ max_retries = 0
    /\ delay_in_seconds = 0
    /\ should_abort_retry = None
    /\ plan = << >>
    /\ w = None
    /\ req = << >>
    /\ fetches = 0
    /\ th = << >>
    /\ ops = 0
    /\ salary = None
    /\ brackets = None
    /\ tax_result = None
    /\ NoCallers
    /\ http = [at |-> "idle", route |-> None, key |-> None, raised |-> None,
               status |-> 0, before |-> cache]
    /\ admin_api_key \in AdminKeySettings
    /\ \E h \in EarlierRequests :
         request_history = [c \in Clients |-> h]
    /\ rate_limit_requests = DEFAULT_RATE_LIMIT_REQUESTS
    /\ rate_limit_window_in_seconds = DEFAULT_RATE_LIMIT_WINDOW_IN_SECONDS
    /\ testing \in BOOLEAN
    /\ admitted = [c \in Clients |-> << >>]
    /\ call = NoCall

AdminFrame ==
    UNCHANGED <<capacity, ttl_in_seconds, now, ret, storedAt, useOrder,
                retryVars, fetchVars, th, taxVars, callerVars, admin_api_key,
                rate_limit_requests, rate_limit_window_in_seconds, testing,
                admitted, call>>

\* A request passes require_api_key, then rate_limit(), then the body.
Guarded(rq, route, body) ==
    LET e == require_api_key(rq.api_key, admin_api_key)
        o == wrapper(request_history, rq, now, rate_limit_requests,
                     rate_limit_window_in_seconds, testing)
    IN
    /\ ops < MaxCalls
    /\ ops' = ops + 1
    /\ IF e # None
       THEN /\ http' = Answer(route, rq, e, cache)
            /\ UNCHANGED <<cache, request_history>>
       ELSE /\ request_history' = o.histories
            /\ http' = Answer(route, rq, o.raised, cache)
            /\ cache' = IF o.raised # None THEN cache ELSE body
    /\ AdminFrame

\* DELETE /cache: clear_cache
DeleteCache(rq) == Guarded(rq, "clear_cache", clear(cache))

\* DELETE /cache/tax-year/<year>: clear_year_cache
DeleteYearCache(rq, year) ==
    Guarded(rq, "clear_year_cache",
            IF contains(cache, get_cache_key(year))
            THEN delitem(cache, get_cache_key(year)) ELSE cache)

NextAdmin ==
    \/ \E rq \in AdminRequests : DeleteCache(rq)
    \/ \E rq \in AdminRequests, year \in RouteYearsToClear :
          DeleteYearCache(rq, year)
    \/ TickClock

SpecAdmin == InitAdmin /\ [][NextAdmin]_vars

\* C29: the cache routes change the cache only for a request whose X-API-Key
\* equals the admin key of the configuration. With an admin key configured,
\* a request whose key is missing, empty or different is answered with
\* UnauthorizedError and status 401, and the cache is as it was before.
OnlyAdminKeyChangesCache ==
    /\ []((/\ http.at = "done"
           /\ ~Falsy(admin_api_key)
           /\ (Falsy(http.key) \/ http.key # admin_api_key)) =>
            /\ http.raised = "UnauthorizedError"
            /\ http.status = 401
            /\ cache = http.before)
    /\ [][cache' # cache =>
            /\ http'.key = admin_api_key
            /\ ~Falsy(http'.key)
            /\ http'.raised = None]_vars

\* C29 witness: a request with another key met a cache with two entries and
\* was answered with 401; the two entries are still there.
WrongKeyRejected ==
    /\ http.at = "done"
    /\ http.key = "wrong"
    /\ admin_api_key = AdminKey
    /\ http.status = 401
    /\ Len(cache) = 2

----------------------------------------------------------------------------
(* Claims about contains *)

\* C30: contains(key) returns whether an entry for key is stored and changes
\* nothing: the entries, their order of recency and their timestamps are
\* after the call what they were before it. It does not expire anything, so
\* it returns True for an entry older than ttl, which a get would remove.
ContainsIsPure ==
    [][ret'.op = "contains" =>
         /\ cache' = cache
         /\ storedAt' = storedAt
         /\ useOrder' = useOrder
         /\ ret'.raised = None
         /\ ret'.value = (IF \E i \in 1..Len(cache) : cache[i].key = ret'.key
                          THEN "True" ELSE "False")]_vars

\* C30 witness: contains returned True for an entry that is older than ttl
\* and not the most recently used; a get of the key would return None and
\* remove it.
ContainsOfExpiredEntry ==
    /\ ret.op = "contains"
    /\ ret.value = "True"
    /\ Len(cache) >= 2
    /\ cache[1].key = ret.key
    /\ now - cache[1].timestamp > ttl_in_seconds
    /\ get(cache, ret.key, now, ttl_in_seconds).value = None
    /\ ~Has(get(cache, ret.key, now, ttl_in_seconds).cache, ret.key)

----------------------------------------------------------------------------
(* Claims about delete and about expired entries *)

\* C31: delete(key) removes the entry of key when there is one and does
\* nothing, without an error, when there is none: the entries of the other
\* keys keep their value, their timestamp and their order, and a second
\* delete of the key changes nothing more.
DeleteRemovesOnlyKey ==
    [][ret'.op = "delete" =>
         /\ ret'.raised = None
         /\ cache' = SelectSeq(cache, LAMBDA e : e.key # ret'.key)
         /\ ~Has(cache, ret'.key) => cache' = cache
         /\ delitem(cache', ret'.key) = cache']_vars

\* C31 witness: a key that had been stored was deleted from a cache that
\* keeps another entry, and is gone.
DeletedOneOfTwo ==
    /\ ret.op = "delete"
    /\ ret.key \in DOMAIN storedAt
    /\ ~Has(cache, ret.key)
    /\ Len(cache) >= 1
    /\ capacity = 2

----------------------------------------------------------------------------
(* app/utils/validators.py: validate_year on its own *)

\* The longest year string, and the characters of the strings.
MaxYearLen == 4
YearChars == {"2", "0", "1", "9", "4", " ", "x", "+"}

\* The arguments of validate_year: None, integers (True is the integer 1),
\* floats (n is the integer part), and strings.
YearArguments ==
    {[kind |-> "none", n |-> 0, text |-> << >>]}
    \cup {[kind |-> "int", n |-> n, text |-> << >>] :
            n \in {0, 1, 2018, 2019, 2021, 2023, 2024}}
    \cup {[kind |-> "float", n |-> n, text |-> << >>] : n \in {0, 2019, 2024}}
    \cup {[kind |-> "text", n |-> 0, text |-> t] :
            t \in UNION {[1..n -> YearChars] : n \in 0..MaxYearLen}}

InitYear ==
    /\ cache = << >>
    /\ capacity = 0
    /\ ttl_in_seconds = 0
    /\ now = 0
    /\ ret = Ret("init", None, None, None, None)
    /\ storedAt = << >>
    /\ useOrder = << >>
    /\ max_retries = 0
    /\ delay_in_seconds = 0
    /\ should_abort_retry = None
    /\ plan = << >>
    /\ w = None
    /\ req \in {[year |-> y] : y \in YearArguments}
    /\ fetches = 0
    /\ th = << >>
    /\ ops = 0
    /\ salary = None
    /\ brackets = None
    /\ tax_result = None
    /\ NoCallers /\ NoRoutes /\ NoLimiter

\* validate_year(year) is called and returns or raises.
ValidateYear ==
    /\ ret.op = "init"
    /\ ret' = Ret("validate_year", None, validate_year(req.year).value,
                  validate_year(req.year).error, None)
    /\ UNCHANGED <<cache, capacity, ttl_in_seconds, now, storedAt, useOrder>>
    /\ UNCHANGED <<retryVars, fetchVars, threadVars, taxVars, restVars>>

NextYear == ValidateYear

SpecYear == InitYear /\ [][NextYear]_vars

\* Whether the argument is an integer or a numeric string that denotes a
\* year of 2019..2023, and that year.
DenotedYear(y) ==
    IF y.kind = "int" THEN y.n
    ELSE IF y.kind = "text" /\ IsIntLiteral(year_without_spaces(y.text))
    THEN IntOfLiteral(year_without_spaces(y.text))
    ELSE 0

\* C32: validate_year returns y for an integer or a numeric string that
\* denotes y in 2019..2023 and fails with a ValidationError for every other
\* argument.
YearValidated ==
    ret.op = "validate_year" =>
      IF DenotedYear(req.year) >= 2019 /\ DenotedYear(req.year) <= 2023
      THEN ret.raised = None /\ ret.value = DenotedYear(req.year)
      ELSE ret.raised = "ValidationError"

\* C33: put removes no entry for being expired. A put into a cache of
\* capacity C >= 1 evicts exactly when the key is new and the number of stored
\* entries, expired ones included, is C; it then evicts the
\* least-recently-used entry, whatever the ages, and removes no other key.
\* In every step, a key whose entry is older than ttl stays stored unless the
\* step is a get or a delete of that key, a put that evicts it as the
\* least recently used, or a clear.
PutIgnoresExpiry ==
    [][/\ (ret'.op = "put" /\ capacity >= 1) =>
            /\ ret'.raised = None
            /\ \A k \in KeysOf(cache) \ {ret'.evicted} : Has(cache', k)
            /\ ret'.evicted # None <=>
                 (~Has(cache, ret'.key) /\ Len(cache) >= capacity)
            /\ ret'.evicted # None => ret'.evicted = LRUKey(cache, useOrder)
       /\ \A i \in 1..Len(cache) :
            (/\ now - cache[i].timestamp > ttl_in_seconds
             /\ ~Has(cache', cache[i].key)) =>
                \/ ret'.op \in {"get", "delete"} /\ ret'.key = cache[i].key
                \/ ret'.op = "put" /\ ret'.evicted = cache[i].key
                \/ ret'.op = "clear"]_vars

\* C33 witness: a put of a new key into a full cache has just evicted an
\* entry that was not older than ttl, and an entry that is older than ttl is
\* still stored.
FreshEvictedExpiredKept ==
    /\ ret.op = "put"
    /\ ret.evicted # None
    /\ now - storedAt[ret.evicted] <= ttl_in_seconds
    /\ \E i \in 1..Len(cache) : now - cache[i].timestamp > ttl_in_seconds

----------------------------------------------------------------------------
(* Claims about rejected calls of the rate limiter *)

\* C36: a rejected call adds no timestamp to the history of its client: the
\* history after it is the history before it without the timestamps that
\* left the window. After every call the history of the client holds exactly
\* the timestamps of its admitted calls that lie in the window, and a call
\* that comes when the oldest stored timestamp of the client is more than W
\* seconds old is admitted, however many calls were rejected before.
RejectedLeavesNoTrace ==
    [][(ops' = ops + 1 /\ ~testing) =>
         LET id == call'.id
             W == rate_limit_window_in_seconds
         IN
         /\ call'.raised # None =>
              /\ request_history'[id] = in_window(request_history[id], now, W)
              /\ Len(request_history'[id]) <= Len(request_history[id])
         /\ call'.raised = None =>
              request_history'[id] =
                Append(in_window(request_history[id], now, W), now)
         /\ request_history'[id] = in_window(admitted'[id], now, W)
         /\ (/\ request_history[id] # << >>
             /\ now - request_history[id][1] > W) => call'.raised = None]_vars

\* C36 witness: with R = 1 and W = 1 a client was admitted at second 0,
\* rejected once after that, and admitted again at second 2.
AdmittedAfterRejections ==
    /\ ~testing
    /\ rate_limit_requests = 1
    /\ rate_limit_window_in_seconds = 1
    /\ call.n = 3
    /\ call.now = 2
    /\ call.raised = None
    /\ call.before = <<0>>
    /\ \A c \in Clients \ {call.id} : admitted[c] = << >>

----------------------------------------------------------------------------
(* app/decorators/rate_limit.py called by several threads for one client.
   The wrapper takes no lock: between reading the clock, building the pruned
   list, storing it, testing its length and appending, other threads run. *)

LimitedClient == unique_id(Request("10.0.0.1", None, None, "h1"))

WrapperIdle == [pc |-> "idle", now |-> 0, kept |-> << >>, raised |-> None]

InitLimitThreads ==
    /\ cache = << >>
    /\ capacity = 0
    /\ ttl_in_seconds = 0
    /\ now = 0
    /\ ret = Ret("init", None, None, None, None)
    /\ storedAt = << >>
    /\ useOrder = << >>
    /\ max_retries = 0
    /\ delay_in_seconds = 0
    /\ should_abort_retry = None
    /\ plan = << >>
    /\ w = None
    /\ req = << >>
    /\ fetches = 0
    /\ th = [t \in Threads |-> WrapperIdle]
    /\ ops = 0
    /\ salary = None
    /\ brackets = None
    /\ tax_result = None
    /\ NoCallers /\ NoRoutes
    /\ request_history = [c \in Clients |-> << >>]
    /\ rate_limit_requests \in 1..MaxLimit
    /\ rate_limit_window_in_seconds \in 1..MaxWindow
    /\ testing = FALSE
    /\ admitted = [c \in Clients |-> << >>]
    /\ call = NoCall

LimitThreadsFrame ==
    UNCHANGED <<cache, capacity, ttl_in_seconds, now, ret, storedAt, useOrder,
                retryVars, fetchVars, taxVars, callerVars, routeVars,
                rate_limit_requests, rate_limit_window_in_seconds, testing,
                call>>

\* Line 36: now = datetime.now()
WrapperNow(t) ==
    /\ th[t].pc = "idle"
    /\ ops < MaxCalls
    /\ ops' = ops + 1
    /\ th' = [th EXCEPT ![t] = [pc |-> "filter", now |-> now,
                                kept |-> << >>, raised |-> None]]
    /\ UNCHANGED <<request_history, admitted>>
    /\ LimitThreadsFrame

\* Lines 38-41, the list comprehension over request_history[unique_id]
WrapperFilter(t) ==
    /\ th[t].pc = "filter"
    /\ th' = [th EXCEPT ![t].pc = "store",
                        ![t].kept = in_window(request_history[LimitedClient],
                                              th[t].now,
                                              rate_limit_window_in_seconds)]
    /\ UNCHANGED <<ops, request_history, admitted>>
    /\ LimitThreadsFrame

\* Line 38, the assignment request_history[unique_id] = [...]
WrapperStore(t) ==
    /\ th[t].pc = "store"
    /\ request_history' = [request_history EXCEPT ![LimitedClient] = th[t].kept]
    /\ th' = [th EXCEPT ![t].pc = "check"]
    /\ UNCHANGED <<ops, admitted>>
    /\ LimitThreadsFrame

\* Lines 43-46: len(request_history[unique_id]) >= rate_limit_requests
WrapperCheck(t) ==
    /\ th[t].pc = "check"
    /\ th' = IF Len(request_history[LimitedClient]) >= rate_limit_requests
             THEN [th EXCEPT ![t].pc = "idle", ![t].kept = << >>,
                             ![t].raised = "RateLimitError"]
             ELSE [th EXCEPT ![t].pc = "append"]
    /\ UNCHANGED <<ops, request_history, admitted>>
    /\ LimitThreadsFrame

\* Lines 48-49: request_history[unique_id].append(now); return func(...)
WrapperAppend(t) ==
    /\ th[t].pc = "append"
    /\ request_history' =
         [request_history EXCEPT ![LimitedClient] = Append(@, th[t].now)]
    /\ admitted' = [admitted EXCEPT ![LimitedClient] = Append(@, th[t].now)]
    /\ th' = [th EXCEPT ![t].pc = "idle", ![t].kept = << >>]
    /\ UNCHANGED ops
    /\ LimitThreadsFrame

NextLimitThreads ==
    \/ \E t \in Threads : WrapperNow(t)
    \/ \E t \in Threads : WrapperFilter(t)
    \/ \E t \in Threads : WrapperStore(t)
    \/ \E t \in Threads : WrapperCheck(t)
    \/ \E t \in Threads : WrapperAppend(t)
    \/ TickClock

SpecLimitThreads == InitLimitThreads /\ [][NextLimitThreads]_vars

\* The number of admitted calls of client c with a timestamp in the W
\* seconds that start at second x.
AdmittedInSpan(c, x) ==
    Len(SelectSeq(admitted[c],
                  LAMBDA y : x <= y /\ y - x <= rate_limit_window_in_seconds))

\* C34: of the calls of one client that carry the same timestamp or run in
\* threads at the same time, at most R are admitted within the window,
\* however the steps of the wrappers interleave.
ThreadsAdmitAtMostR ==
    \A x \in 0..MaxClock : AdmittedInSpan(LimitedClient, x) <= rate_limit_requests

----------------------------------------------------------------------------
(* app/api/calculate_tax_routes.py: two routes decorated with rate_limit.
   Both wrappers use the one request_history of the module. *)

\* @rate_limit(5, 1) of get_job_status
JOB_STATUS_RATE_LIMIT_REQUESTS == 5
JOB_STATUS_RATE_LIMIT_WINDOW_IN_SECONDS == 1

\* The number of calls of a behaviour.
MaxEndpointCalls == 7

Endpoints == {"calculate_tax_route", "get_job_status"}

\* The arguments of the decorators of the two routes.
EndpointRequests ==
    [calculate_tax_route |-> DEFAULT_RATE_LIMIT_REQUESTS,
     get_job_status |-> JOB_STATUS_RATE_LIMIT_REQUESTS]

EndpointWindows ==
    [calculate_tax_route |-> DEFAULT_RATE_LIMIT_WINDOW_IN_SECONDS,
     get_job_status |-> JOB_STATUS_RATE_LIMIT_WINDOW_IN_SECONDS]

NoEndpointCall ==
    [endpoint |-> None, now |-> 0, raised |-> None, before |-> << >>, n |-> 0]

InitEndpoints ==
    /\ cache = << >>
    /\ capacity = 0
    /\ ttl_in_seconds = 0
    /\ now = 0
    /\ ret = Ret("init", None, None, None, None)
    /\ storedAt = << >>
    /\ useOrder = << >>
    /\ max_retries = 0
    /\ delay_in_seconds = 0
    /\ should_abort_retry = None
    /\ plan = << >>
    /\ w = None
    /\ req = << >>
    /\ fetches = 0
    /\ th = << >>
    /\ ops = 0
    /\ salary = None
    /\ brackets = None
    /\ tax_result = None
    /\ NoCallers /\ NoRoutes
    /\ request_history = [c \in Clients |-> << >>]
    /\ rate_limit_requests = EndpointRequests
    /\ rate_limit_window_in_seconds = EndpointWindows
    /\ testing = FALSE
    /\ admitted = [e \in Endpoints |-> << >>]
    /\ call = NoEndpointCall

\* A request of the client reaches the route e at datetime.now() = now.
EndpointCall(e) ==
    LET o == wrapper(request_history, Request("10.0.0.1", None, None, "h1"),
                     now, rate_limit_requests[e],
                     rate_limit_window_in_seconds[e], testing)
    IN
    /\ ops < MaxEndpointCalls
    /\ ops' = ops + 1
    /\ request_history' = o.histories
    /\ admitted' = IF o.raised = None
                   THEN [admitted EXCEPT ![e] = Append(@, now)]
                   ELSE admitted
    /\ call' = [endpoint |-> e, now |-> now, raised |-> o.raised,
                before |-> admitted[e], n |-> ops + 1]
    /\ now' = now
    /\ LimitFrame

NextEndpoints ==
    \/ \E e \in Endpoints : EndpointCall(e)
    \/ TickClock

SpecEndpoints == InitEndpoints /\ [][NextEndpoints]_vars

\* No span of 5 seconds has more than 5 admitted calls of the client to the
\* route with the default limit.
DefaultLimitHolds ==
    \A x \in 0..MaxClock :
        Len(SelectSeq(admitted["calculate_tax_route"],
                      LAMBDA y : x <= y
                                 /\ y - x <= DEFAULT_RATE_LIMIT_WINDOW_IN_SECONDS))
          <= DEFAULT_RATE_LIMIT_REQUESTS

\* A call to a route is rejected only when R admitted calls to that same
\* route lie in its window.
QuotaIsPerEndpoint ==
    (call.n > 0 /\ call.raised # None) =>
        Len(SelectSeq(call.before,
                      LAMBDA y : call.now - y
                                   <= EndpointWindows[call.endpoint]))
          >= EndpointRequests[call.endpoint]

\* C35: the limit of a route holds whatever the client calls on other
\* routes: at most 5 of its calls to the route with the default limit are
\* admitted in any 5 seconds, also when calls to the job status route come
\* in between, and calls to one route use up no quota of another.
EndpointLimitsIndependent == DefaultLimitHolds /\ QuotaIsPerEndpoint

----------------------------------------------------------------------------
(* Claims about what fetch_tax_brackets stores *)

StoredEntries(c) == {c[i] : i \in 1..Len(c)}

\* C37: a call of fetch_tax_brackets that ends in an error has stored
\* nothing. An entry is added or replaced only in the step in which an
\* attempt got a 2xx answer with the tax_brackets field; that attempt
\* returns, and the entry is the one of its year, with the brackets of the
\* answer and the current time. No step of a call changes the value or the
\* timestamp of the entry of another year.
ErrorNeverWritesCache ==
    [][\A r \in DOMAIN req :
         LET key == get_cache_key(validate_year(req[r].year).value)
             written == StoredEntries(cache') \ StoredEntries(cache)
         IN
         /\ written # {} =>
              /\ req[r].at = "http"
              /\ req'[r].at = "done"
              /\ req'[r].ws.pc = "returned"
              /\ req'[r].last \in Brackets
              /\ written = {Entry(key, req'[r].last, now)}
         /\ (req[r].at # "idle" /\ req'[r] # req[r]) =>
              \A e \in StoredEntries(cache) : e.key # key => e \in StoredEntries(cache')
         /\ (req'[r].at = "done" /\ req'[r].ws.pc = "raised") =>
              /\ req'[r].puts = 0
              /\ written = {}]_vars

\* C37 witness: a call ended in an error after three upstream GETs while the
\* cache holds the entry an earlier call stored for another year.
FailedCallBesideStoredYear ==
    \E r \in DOMAIN req :
        /\ req[r].at = "done"
        /\ req[r].ws.pc = "raised"
        /\ req[r].gets = 3
        /\ \E e \in StoredEntries(cache) :
              e.key # get_cache_key(validate_year(req[r].year).value)

----------------------------------------------------------------------------
(* The shared cache of fetch_tax_brackets under calls for every year *)

\* The number of calls of a behaviour.
MaxYearFetches == 6

\* The year arguments of the calls: the integers around the supported
\* years, and strings of a supported year.
AnyYearInputs ==
    {[kind |-> "int", n |-> n] : n \in (MinYear - 1)..(MaxYear + 1)}
    \cup {[kind |-> "str", n |-> MaxYear],
          [kind |-> "text", n |-> 0, text |-> <<" ", "2", "0", "1", "9">>]}

\* The answers of the upstream: a bracket list, or 429.
YearResponses == {"B1", "429"}

\* A caller calls tax_calculator.fetch_tax_brackets(year, api_url).
StartYearFetch(r, y) ==
    /\ req[r].at = "idle"
    /\ fetches < MaxYearFetches
    /\ fetches' = fetches + 1
    /\ req' = [req EXCEPT ![r] =
                 [Idle EXCEPT !.at = "body", !.year = y,
                              !.api_url = [scheme |-> "http", netloc |-> "api",
                                           path |-> ""]]]
    /\ UNCHANGED <<cacheVars, retryVars, threadVars, taxVars, restVars>>

NextYears ==
    \/ \E r \in DOMAIN req, y \in AnyYearInputs : StartYearFetch(r, y)
    \/ \E r \in DOMAIN req : FetchBody(r)
    \/ \E r \in DOMAIN req, resp \in YearResponses : FetchHttp(r, resp)
    \/ \E r \in DOMAIN req : FetchSleep(r)
    \/ \E r \in DOMAIN req : FetchEnd(r)
    \/ ClearCache
    \/ \E y \in MinYear..MaxYear : ClearYearCache(y)

SpecYears == InitFetch /\ [][NextYears]_vars

\* C38: every key of the shared cache is brackets_<y> for an integer y of
\* 2019..2023, whatever fetches and invalidations ran; the cache holds at
\* most 5 entries, fewer than its capacity of 100, and no step of a fetch
\* that stores an entry removes the entry of another key.
SharedCacheKeysAreYears ==
    /\ [](/\ \A i \in 1..Len(cache) :
               \E y \in 2019..2023 : cache[i].key = <<"brackets_", y>>
          /\ Len(cache) <= 5
          /\ capacity = 100
          /\ Len(cache) < capacity)
    /\ [][\A r \in DOMAIN req :
            (req[r].at = "http" /\ req'[r] # req[r]) =>
               /\ KeysOf(cache) \subseteq KeysOf(cache')
               /\ Len(cache') >= Len(cache)]_vars

\* C38 witness: the cache holds an entry for each of the five years, and a
\* further call has just stored one of them again after an invalidation.
AllFiveYearsStored ==
    /\ Len(cache) = 5
    /\ fetches = 6
    /\ \E r \in DOMAIN req : req[r].at = "done" /\ req[r].puts = 1

----------------------------------------------------------------------------
(* fetch_tax_brackets retried by one caller while another caller stores *)

\* The answers of the upstream: a bracket list, the empty bracket list, 500.
RetryResponses == {"B1", "EMPTY", "500"}

NextRetryingFetch ==
    \/ \E r \in DOMAIN req, y \in ConcurrentYears : StartFetch(r, y, ConcurrentUrl)
    \/ \E r \in DOMAIN req : FetchBody(r)
    \/ \E r \in DOMAIN req, resp \in RetryResponses : FetchGet(r, resp)
    \/ \E r \in DOMAIN req : FetchStore(r)
    \/ \E r \in DOMAIN req : FetchSleep(r)
    \/ \E r \in DOMAIN req : FetchEnd(r)
    \/ ClearCache
    \/ \E y \in {2019, 2023} : ClearYearCache(y)
    \/ TickMonth

SpecRetryingFetch == InitConcurrentFetch /\ [][NextRetryingFetch]_vars

\* The attempt of caller r that follows a sleep runs its lookup while the
\* cache holds an unexpired entry of the year.
RetryFindsEntry(r) ==
    /\ req[r].at = "body"
    /\ req[r].ws.pc = "call"
    /\ req[r].ws.attempt > 0
    /\ req'[r] # req[r]
    /\ Has(cache, KeyOf(req[r]))
    /\ ~(now - Lookup(cache, KeyOf(req[r])).timestamp > ttl_in_seconds)

\* C39: every attempt after a sleep looks the year up again; when the cache
\* holds the year's brackets by then, stored by another caller during the
\* sleep, the attempt returns them with wasCacheHit = true and issues no
\* further upstream GET.
RetryHitsStoredBrackets ==
    [][\A r \in DOMAIN req :
         RetryFindsEntry(r) =>
            /\ req'[r].at = "done"
            /\ req'[r].ws.pc = "returned"
            /\ req'[r].ws.result = Lookup(cache, KeyOf(req[r])).value
            /\ req'[r].hit
            /\ req'[r].gets = req[r].gets]_vars

----------------------------------------------------------------------------
(* Claims about the taxable amounts of calculate_taxes *)

\* The list is ascending and contiguous, starts at min 0, ends with the one
\* bracket without max, and its rates lie in [0, 1].
WellFormedBrackets(bs) ==
    /\ bs # << >>
    /\ bs[1].min = 0
    /\ ~bs[Len(bs)].hasMax
    /\ \A i \in 1..(Len(bs) - 1) :
          /\ bs[i].hasMax
          /\ bs[i].max > bs[i].min
          /\ bs[i + 1].min = bs[i].max
    /\ \A i \in 1..Len(bs) : bs[i].rate >= 0 /\ bs[i].rate <= 10000

\* The sum of the taxable amounts of the brackets bs for salary sal.
RECURSIVE SumTaxable(_, _)
SumTaxable(sal, bs) ==
    IF bs = << >> THEN 0
    ELSE taxable_in_bracket(sal, Head(bs)) + SumTaxable(sal, Tail(bs))

\* C40: for a well-formed bracket list and a salary > 0 the call returns
\* one entry per reached bracket; the taxable amount of each reached bracket
\* is > 0 and at most the width of the bracket, the amounts sum to the
\* salary, each tax amount is the rounded product of its taxable amount and
\* the rate, and the total tax is at least 0 and at most the salary plus
\* half a cent per reached bracket.
TaxableAmountsSumToSalary ==
    (/\ tax_result.raised # "pending"
     /\ ~brackets.none
     /\ WellFormedBrackets(brackets.list)
     /\ validate_salary(salary).ok
     /\ ~validate_salary(salary).nan
     /\ SalaryValue > 0) =>
       LET bs == SelectSeq(brackets.list, LAMBDA b : reached(SalaryValue, b))
           es == tax_result.taxes_per_bracket
       IN /\ tax_result.raised = None
          /\ Len(es) = Len(bs)
          /\ \A i \in 1..Len(bs) :
                /\ taxable_in_bracket(SalaryValue, bs[i]) > 0
                /\ bs[i].hasMax =>
                     taxable_in_bracket(SalaryValue, bs[i])
                       <= bs[i].max - bs[i].min
                /\ WithinHalfCent(es[i].tax_amount,
                                  taxable_in_bracket(SalaryValue, bs[i]),
                                  bs[i].rate)
          /\ SumTaxable(SalaryValue, bs) = SalaryValue
          /\ tax_result.total_tax >= 0
          /\ 2 * tax_result.total_tax <= 2 * SalaryValue + Len(bs)

\* C40 witness: a salary of 75000.50 reached the first two brackets of the
\* table of 2023 and the call returned.
TaxedAcrossTwoBrackets ==
    /\ SalaryValue = 7500050
    /\ brackets.list = Brackets2023
    /\ tax_result.raised = None
    /\ Len(tax_result.taxes_per_bracket) = 2

============================================================================
